---------------------------- MODULE Spec2Model ----------------------------
(***************************************************************************)
(* Model of AdonisRoutesDefinitionProvider (the go-to-definition provider  *)
(* for AdonisJS route files): the alias-table cache, the position locator, *)
(* the click classifier, the reference tracer, the project-root finder,    *)
(* the target resolver and the member locator.                             *)
(*                                                                         *)
(* Strings are sequences of tokens.  A token is an atomic piece of text:   *)
(* one letter, the separator "/", a segment name, or one of the pieces the *)
(* code searches for (".js", ".ts", "*", "#controllers").                  *)
(***************************************************************************)
EXTENDS Integers, Sequences, FiniteSets, TLC

VARIABLES
  manifest,         \* manifest path -> [kind, imports, mtime]: package.json on disk
  files,            \* file path -> [kind, tree]: the other files on disk
  clock,            \* the file system's clock: the mtime of the latest edit
  importsCache,     \* Map<string, any>: manifest path -> cached imports value
  cacheTimestamps,  \* Map<string, number>: manifest path -> recorded mtime
  recorded,         \* history: manifest path -> imports value of the content
                    \* that was on disk when cacheTimestamps was last set
  last,             \* history: what the resolve request just served saw and
                    \* returned; no request once a file has been edited since
  cTree, cNode, cCtx,     \* classifier run: tree, clicked node, context
  mFile, mName, mBest,    \* member-locator run: target tree, name, chosen token
  run, ret               \* a run of one function: [fn, ...arguments], result

vars == <<manifest, files, clock, importsCache, cacheTimestamps, recorded,
          last, cTree, cNode, cCtx, mFile, mName, mBest, run, ret>>

(***************************************************************************)
(* Bounds                                                                  *)
(***************************************************************************)
MaxTime == 2        \* number of manifest edits in a behaviour

\* const v = ...; the value is computed once and named in what follows
Bind(v, F(_)) == F(v)

(***************************************************************************)
(* Strings                                                                 *)
(***************************************************************************)
Lower == {"u", "c", "x"}
Upper == {"U", "C", "X"}

ToLowerChar(ch) ==
  CASE ch = "U" -> "u" [] ch = "C" -> "c" [] ch = "X" -> "x" [] OTHER -> ch

StartsWith(s, p) == Len(s) >= Len(p) /\ SubSeq(s, 1, Len(p)) = p

EndsWith(s, p) == Len(s) >= Len(p) /\ SubSeq(s, Len(s) - Len(p) + 1, Len(s)) = p

\* 0 when p does not occur in s, else the index of its first occurrence
IndexOf(s, p) ==
  LET hits == {i \in 1..(Len(s) - Len(p) + 1) : SubSeq(s, i, i + Len(p) - 1) = p}
  IN IF hits = {} THEN 0 ELSE CHOOSE i \in hits : \A j \in hits : i <= j

Includes(s, p) == IndexOf(s, p) # 0

\* String.prototype.replace with a string pattern: the first occurrence only
ReplaceFirst(s, p, r) ==
  LET i == IndexOf(s, p)
  IN IF i = 0 THEN s
     ELSE SubSeq(s, 1, i - 1) \o r \o SubSeq(s, i + Len(p), Len(s))

\* String.prototype.replace with the anchored pattern /p$/
ReplaceSuffix(s, p, r) ==
  IF EndsWith(s, p) THEN SubSeq(s, 1, Len(s) - Len(p)) \o r ELSE s

Substring(s, n) == SubSeq(s, n + 1, Len(s))


(***************************************************************************)
(* Paths (node:path, POSIX flavour)                                        *)
(***************************************************************************)
Sep == <<"/">>

RECURSIVE StripTrailingSeps(_)
StripTrailingSeps(p) ==
  IF Len(p) > 1 /\ p[Len(p)] = "/" THEN StripTrailingSeps(SubSeq(p, 1, Len(p) - 1))
  ELSE p

\* the index of the last "/" of p, 0 when there is none
LastSep(p) ==
  LET at == {i \in 1..Len(p) : p[i] = "/"}
  IN IF at = {} THEN 0 ELSE CHOOSE i \in at : \A j \in at : j <= i

\* path.dirname
Dirname(p) ==
  LET q == StripTrailingSeps(p)
      i == LastSep(q)
  IN IF i = 0 THEN <<".">>
     ELSE IF i = 1 THEN Sep
     ELSE StripTrailingSeps(SubSeq(q, 1, i - 1))

\* the segments of p between its separators, empty ones included
RECURSIVE Segments(_)
Segments(p) ==
  LET at == {i \in 1..Len(p) : p[i] = "/"}
  IN IF at = {} THEN <<p>>
     ELSE LET i == CHOOSE k \in at : \A j \in at : k <= j
          IN <<SubSeq(p, 1, i - 1)>> \o Segments(SubSeq(p, i + 1, Len(p)))

\* the "." and ".." handling of path.normalize for an absolute path: the
\* stack of the segments that remain
RECURSIVE Collapse(_, _)
Collapse(segs, stack) ==
  IF segs = <<>> THEN stack
  ELSE LET s == Head(segs)
       IN IF s = <<>> \/ s = <<".">> THEN Collapse(Tail(segs), stack)
          ELSE IF s = <<"..">>
            THEN Collapse(Tail(segs),
                          IF stack = <<>> THEN stack
                          ELSE SubSeq(stack, 1, Len(stack) - 1))
          ELSE Collapse(Tail(segs), Append(stack, s))

RECURSIVE Glue(_)
Glue(stack) ==
  IF stack = <<>> THEN <<>> ELSE Sep \o Head(stack) \o Glue(Tail(stack))

NormalizeAbs(p) ==
  LET st == Collapse(Segments(p), <<>>)
  IN IF st = <<>> THEN Sep ELSE Glue(st)

\* path.resolve(from, to) for an absolute `from`
Resolve(from, to) ==
  IF StartsWith(to, Sep) THEN NormalizeAbs(to)
  ELSE NormalizeAbs(from \o Sep \o to)

\* path.join(base, rest) for an absolute `base`
Join(base, rest) == NormalizeAbs(base \o Sep \o rest)

(***************************************************************************)
(* Values                                                                  *)
(***************************************************************************)
\* An entry of package.json#imports as JavaScript sees it: a string, a
\* non-string object, or undefined (no such key).
StrVal(s) == [t |-> "str", s |-> s]
ObjVal == [t |-> "obj", s |-> <<>>]
Undef == [t |-> "undef", s |-> <<>>]

Truthy(v) == v.t = "obj" \/ (v.t = "str" /\ v.s # <<>>)

\* String(v)
ToStr(v) ==
  CASE v.t = "str" -> v.s
    [] v.t = "obj" -> <<"[object Object]">>
    [] OTHER -> <<"undefined">>

\* A faulty obj[key]: a key that is not declared reads as the conventional
\* controllers mapping.  The no-imports property rejects it.
PropOrConvention(obj, key) ==
  IF key \in DOMAIN obj THEN obj[key]
  ELSE StrVal(<<".", "/", "app", "/", "controllers", "/", "*", ".js">>)

\* obj[key] on an imports object (a function from keys to values)
Prop(obj, key) == IF key \in DOMAIN obj THEN obj[key] ELSE Undef

EmptyObj == [k \in {} |-> Undef]

\* A Map<string, V>: a function whose domain is the set of keys set so far
MapGet(m, k, dflt) == IF k \in DOMAIN m THEN m[k] ELSE dflt
MapSet(m, k, v) == [x \in DOMAIN m \cup {k} |-> IF x = k THEN v ELSE m[x]]
MapHas(m, k) == k \in DOMAIN m


(***************************************************************************)
(* Syntax trees (ts.Node)                                                  *)
(*                                                                         *)
(* A node is [kind, text, mods, kids].  A node of a tree is named by its   *)
(* path, the sequence of child indices from the root, so that two nodes    *)
(* are the same node (===) exactly when their paths are equal.             *)
(*   CallExpression            kids = <<expression>> \o arguments          *)
(*   PropertyAccessExpression  kids = <<expression, name>>                 *)
(*   ArrayLiteralExpression    kids = elements                             *)
(*   VariableDeclaration       kids = <<name>> or <<name, initializer>>    *)
(*   ArrowFunction             kids = parameters \o <<body>>               *)
(*   Class/Method/Property/FunctionDeclaration  kids = <<name>> \o rest    *)
(***************************************************************************)
Node(k, t, m, ks) == [kind |-> k, text |-> t, mods |-> m, kids |-> ks]

Ident(t) == Node("Identifier", t, {}, <<>>)
Str(t) == Node("StringLiteral", t, {}, <<>>)
Arr(elems) == Node("ArrayLiteralExpression", <<>>, {}, elems)
PropAccess(obj, name) == Node("PropertyAccessExpression", <<>>, {}, <<obj, Ident(name)>>)
Call(callee, args) == Node("CallExpression", <<>>, {}, <<callee>> \o args)
ImportKeyword == Node("ImportKeyword", <<>>, {}, <<>>)
Arrow(params, body) == Node("ArrowFunction", <<>>, {}, params \o <<body>>)
VarDecl(name, init) == Node("VariableDeclaration", <<>>, {}, <<Ident(name)>> \o init)
VarStmt(decls) ==
  Node("VariableStatement", <<>>, {},
       <<Node("VariableDeclarationList", <<>>, {}, decls)>>)
ExprStmt(e) == Node("ExpressionStatement", <<>>, {}, <<e>>)
SourceFile(stmts) == Node("SourceFile", <<>>, {}, stmts)

NoPath == <<0>>     \* null where a node is expected

RECURSIVE NodeAt(_, _)
NodeAt(tree, path) ==
  IF path = <<>> THEN tree ELSE NodeAt(tree.kids[Head(path)], Tail(path))

RECURSIVE Paths(_)
Paths(tree) ==
  {<<>>} \cup UNION {{<<i>> \o q : q \in Paths(tree.kids[i])} : i \in 1..Len(tree.kids)}

\* node.parent; NoPath for the root
Parent(path) == IF path = <<>> THEN NoPath ELSE SubSeq(path, 1, Len(path) - 1)

IsKind(tree, path, k) == path # NoPath /\ NodeAt(tree, path).kind = k

\* call.arguments
Arguments(tree, call) == Tail(NodeAt(tree, call).kids)

\* the path of call.arguments[i] (i counted from 0)
ArgPath(call, i) == Append(call, i + 2)

\* ts.isCallExpression(n) && ts.isPropertyAccessExpression(n.expression)
IsMethodCall(tree, path) ==
  /\ IsKind(tree, path, "CallExpression")
  /\ NodeAt(tree, path).kids[1].kind = "PropertyAccessExpression"

\* n.expression.name.text of such a call
CalleeName(tree, path) == NodeAt(tree, path).kids[1].kids[2].text

(***************************************************************************)
(* Position locator                                                        *)
(*   A node seen by its extent: [start, end, kids], start = node.getStart() *)
(*   (past the leading trivia), end = node.getEnd(), kids = getChildren(). *)
(***************************************************************************)
Span(start, end, kids) == [start |-> start, end |-> end, kids |-> kids]

RECURSIVE find(_, _, _)
RECURSIVE FirstFound(_, _, _, _)
\* for (const child of node.getChildren()) { found = find(child); ... }: the
\* first child, from the i-th on, in which a node is found; NoPath when none
FirstFound(tree, node, i, position) ==
  IF i > Len(NodeAt(tree, node).kids) THEN NoPath
  ELSE Bind(find(tree, Append(node, i), position), LAMBDA found :
         IF found # NoPath THEN found ELSE FirstFound(tree, node, i + 1, position))

find(tree, node, position) ==
  IF position >= NodeAt(tree, node).start /\ position <= NodeAt(tree, node).end
    THEN Bind(FirstFound(tree, node, 1, position), LAMBDA found :
           IF found # NoPath THEN found ELSE node)
  ELSE NoPath

\* the path of the node returned for the offset, NoPath for null
findNodeAtPosition(sourceFile, position) == find(sourceFile, <<>>, position)

(***************************************************************************)
(* Context classifier                                                      *)
(***************************************************************************)
RouterVerbs ==
  {<<"get">>, <<"post">>, <<"put">>, <<"patch">>, <<"delete">>, <<"route">>,
   <<"resource">>, <<"group">>}

NoHandler == [type |-> "none", controllerName |-> <<>>, variableName |-> <<>>,
              methodName |-> <<>>]

NoContext == [type |-> "none", variableName |-> <<>>, controllerName |-> <<>>,
              methodName |-> <<>>, importPath |-> <<>>, moduleName |-> <<>>]

RECURSIVE findRouterCall(_, _)
findRouterCall(tree, current) ==
  IF current = NoPath THEN NoPath
  ELSE IF IsMethodCall(tree, current) /\ CalleeName(tree, current) \in RouterVerbs
    THEN current
  ELSE findRouterCall(tree, Parent(current))

parseHandlerArgument(arg) ==
  IF /\ arg.kind = "ArrayLiteralExpression"
     /\ Len(arg.kids) = 2
     /\ arg.kids[1].kind = "Identifier"
     /\ arg.kids[2].kind = "StringLiteral"
    THEN [NoHandler EXCEPT !.type = "controller",
                           !.controllerName = arg.kids[1].text,
                           !.methodName = arg.kids[2].text]
  ELSE IF arg.kind \in {"ArrowFunction", "FunctionExpression"} THEN NoHandler
  ELSE IF arg.kind = "Identifier"
    THEN [NoHandler EXCEPT !.type = "controller_variable", !.variableName = arg.text]
  ELSE NoHandler

\* the loop over chained calls: the first enclosing call, each the parent of
\* the one before, that has two arguments
RECURSIVE ChainedHandler(_, _)
ChainedHandler(tree, currentCall) ==
  IF IsKind(tree, Parent(currentCall), "CallExpression")
    THEN LET up == Parent(currentCall)
         IN IF Len(Arguments(tree, up)) >= 2
              THEN parseHandlerArgument(Arguments(tree, up)[2])
            ELSE ChainedHandler(tree, up)
  ELSE NoHandler

extractHandlerFromRouterCall(tree, call) ==
  IF Len(Arguments(tree, call)) >= 2
    THEN parseHandlerArgument(Arguments(tree, call)[2])
  ELSE ChainedHandler(tree, call)

\* A faulty walk: only the innermost enclosing call is asked whether it is a
\* group call.  The routes-module property rejects it.
RECURSIVE findRoutesGroupCallInnermost(_, _)
findRoutesGroupCallInnermost(tree, current) ==
  IF current = NoPath THEN NoPath
  ELSE IF IsKind(tree, current, "CallExpression")
    THEN IF IsMethodCall(tree, current) /\ CalleeName(tree, current) = <<"group">>
           THEN current ELSE NoPath
  ELSE findRoutesGroupCallInnermost(tree, Parent(current))

RECURSIVE findRoutesGroupCall(_, _)
findRoutesGroupCall(tree, current) ==
  IF current = NoPath THEN NoPath
  ELSE IF IsMethodCall(tree, current) /\ CalleeName(tree, current) = <<"group">>
    THEN current
  ELSE findRoutesGroupCall(tree, Parent(current))

\* node is elements[0] of a two-element array literal whose elements[1] is a string
IsTupleHead(tree, node) ==
  /\ IsKind(tree, Parent(node), "ArrayLiteralExpression")
  /\ Len(NodeAt(tree, Parent(node)).kids) = 2
  /\ Append(Parent(node), 1) = node
  /\ NodeAt(tree, Parent(node)).kids[2].kind = "StringLiteral"

\* the handler of the router call found for the node, NoHandler without one
HandlerFor(tree, routerCall) ==
  IF routerCall = NoPath THEN NoHandler
  ELSE extractHandlerFromRouterCall(tree, routerCall)

\* A faulty classifier: the head of a tuple carries the member name of the
\* tuple.  The controller-identifier property rejects it.
analyzeIdentifierClickWithMember(tree, node) ==
  Bind(HandlerFor(tree, findRouterCall(tree, node)), LAMBDA handler :
     IF handler.type = "controller_variable" /\ handler.variableName # <<>>
       THEN [NoContext EXCEPT !.type = "controller_variable",
                              !.variableName = handler.variableName]
     ELSE IF handler.type # "none" /\ IsTupleHead(tree, node)
       THEN [NoContext EXCEPT !.type = "controller_variable",
                              !.variableName = NodeAt(tree, node).text,
                              !.methodName = NodeAt(tree, Parent(node)).kids[2].text]
     ELSE IF findRoutesGroupCall(tree, node) # NoPath
       THEN [NoContext EXCEPT !.type = "routes_module",
                              !.moduleName = NodeAt(tree, node).text]
     ELSE NoContext)

analyzeIdentifierClick(tree, node) ==
  Bind(HandlerFor(tree, findRouterCall(tree, node)), LAMBDA handler :
     IF handler.type = "controller_variable" /\ handler.variableName # <<>>
       THEN [NoContext EXCEPT !.type = "controller_variable",
                              !.variableName = handler.variableName]
     ELSE IF handler.type # "none" /\ IsTupleHead(tree, node)
       THEN [NoContext EXCEPT !.type = "controller_variable",
                              !.variableName = NodeAt(tree, node).text]
     ELSE IF findRoutesGroupCall(tree, node) # NoPath
       THEN [NoContext EXCEPT !.type = "routes_module",
                              !.moduleName = NodeAt(tree, node).text]
     ELSE NoContext)

\* A faulty indexOf: the index of the element that holds the node, at any
\* depth.  The method-string property rejects it.
ElementIndexHolding(current, node) ==
  IF Len(node) > Len(current) /\ SubSeq(node, 1, Len(current)) = current
    THEN node[Len(current) + 1] - 1
  ELSE 0 - 1

\* current.elements.indexOf(node): the index (from 0) of the element that is
\* the node itself, -1 when no element is
ElementIndexOf(current, node) ==
  IF Parent(node) = current THEN node[Len(node)] - 1 ELSE 0 - 1

RECURSIVE isMethodStringInTuple(_, _, _)
isMethodStringInTuple(tree, node, current) ==
  IF current = NoPath THEN <<>>
  ELSE IF /\ IsKind(tree, current, "ArrayLiteralExpression")
          /\ Len(NodeAt(tree, current).kids) = 2
          /\ ElementIndexOf(current, node) = 1
          /\ NodeAt(tree, current).kids[1].kind = "Identifier"
    THEN <<NodeAt(tree, current).kids[1].text>>
  ELSE isMethodStringInTuple(tree, node, Parent(current))

ControllersPrefix == <<"#controllers", "/">>

analyzeStringLiteralClick(tree, node) ==
  Bind(isMethodStringInTuple(tree, node, node), LAMBDA tupleContext :
     IF tupleContext # <<>>
       THEN [NoContext EXCEPT !.type = "method_string",
                              !.controllerName = tupleContext[1],
                              !.methodName = NodeAt(tree, node).text]
     ELSE IF StartsWith(NodeAt(tree, node).text, ControllersPrefix)
       THEN [NoContext EXCEPT !.type = "controller_import_path",
                              !.importPath = NodeAt(tree, node).text]
     ELSE NoContext)

analyzeClickContext(tree, node) ==
  IF IsKind(tree, node, "Identifier") THEN analyzeIdentifierClick(tree, node)
  ELSE IF IsKind(tree, node, "StringLiteral") THEN analyzeStringLiteralClick(tree, node)
  ELSE NoContext


(***************************************************************************)
(* Reference tracer                                                        *)
(***************************************************************************)
\* the string argument of import('...') when e is such a call, else <<>>
ImportArgument(e) ==
  IF /\ e.kind = "CallExpression"
     /\ e.kids[1].kind = "ImportKeyword"
     /\ Len(e.kids) > 1
     /\ e.kids[2].kind = "StringLiteral"
    THEN e.kids[2].text
  ELSE <<>>

\* what visit() returns at a node before it continues into the children
DeclaredImport(n, variableName) ==
  IF /\ n.kind = "VariableDeclaration"
     /\ n.kids[1].kind = "Identifier"
     /\ n.kids[1].text = variableName
     /\ Len(n.kids) > 1
    THEN LET initializer == n.kids[2]
         IN IF initializer.kind = "ArrowFunction"
              THEN ImportArgument(initializer.kids[Len(initializer.kids)])
            ELSE ImportArgument(initializer)
  ELSE <<>>

RECURSIVE findControllerImportPath(_, _)
RECURSIVE FirstImportAmong(_, _)
\* ts.forEachChild(node, visit): the first truthy result, in child order
FirstImportAmong(ks, variableName) ==
  IF ks = <<>> THEN <<>>
  ELSE LET r == findControllerImportPath(Head(ks), variableName)
       IN IF r # <<>> THEN r ELSE FirstImportAmong(Tail(ks), variableName)

findControllerImportPath(n, variableName) ==
  LET here == DeclaredImport(n, variableName)
  IN IF here # <<>> THEN here ELSE FirstImportAmong(n.kids, variableName)

(***************************************************************************)
(* Member locator                                                          *)
(***************************************************************************)
\* node.name && ts.isIdentifier(node.name) && node.name.text === methodName
NamedBy(n, methodName) ==
  Len(n.kids) > 0 /\ n.kids[1].kind = "Identifier" /\ n.kids[1].text = methodName

\* the walk up the parents of a method declaration
RECURSIVE MethodPriority(_, _)
MethodPriority(tree, parent) ==
  IF parent = NoPath THEN 2
  ELSE LET p == NodeAt(tree, parent)
       IN IF p.kind = "ClassDeclaration" /\ "export" \in p.mods /\ "default" \in p.mods
            THEN 1
          ELSE IF p.kind = "ClassDeclaration" THEN 2
          ELSE MethodPriority(tree, Parent(parent))

\* the candidates visit() pushes at one node
CandidatesAt(tree, path, methodName) ==
  LET n == NodeAt(tree, path)
      name == Append(path, 1)
  IN (IF n.kind = "MethodDeclaration" /\ NamedBy(n, methodName)
        THEN <<[node |-> name, priority |-> MethodPriority(tree, Parent(path))]>>
      ELSE <<>>)
     \o (IF n.kind = "PropertyDeclaration" /\ NamedBy(n, methodName)
           THEN <<[node |-> name, priority |-> 2]>>
         ELSE <<>>)
     \o (IF /\ n.kind = "FunctionDeclaration" /\ NamedBy(n, methodName)
            /\ "export" \in n.mods
           THEN <<[node |-> name, priority |-> 3]>>
         ELSE <<>>)

\* visit(): the candidates of the subtree at path, in the order they are pushed
RECURSIVE VisitCandidates(_, _, _)
RECURSIVE VisitChildren(_, _, _, _)
VisitChildren(tree, path, i, methodName) ==
  IF i > Len(NodeAt(tree, path).kids) THEN <<>>
  ELSE VisitCandidates(tree, Append(path, i), methodName)
       \o VisitChildren(tree, path, i + 1, methodName)

VisitCandidates(tree, path, methodName) ==
  CandidatesAt(tree, path, methodName) \o VisitChildren(tree, path, 1, methodName)

\* A faulty insertion: c goes in front of the elements of its own priority, as
\* a sort that is not stable may leave it.  The priority property rejects it.
RECURSIVE InsertBeforeEquals(_, _)
InsertBeforeEquals(sorted, c) ==
  IF sorted = <<>> THEN <<c>>
  ELSE IF Head(sorted).priority - c.priority < 0
    THEN <<Head(sorted)>> \o InsertBeforeEquals(Tail(sorted), c)
  ELSE <<c>> \o sorted

\* insert c behind every element whose priority is not greater than its own
RECURSIVE InsertByPriority(_, _)
InsertByPriority(sorted, c) ==
  IF sorted = <<>> THEN <<c>>
  ELSE IF Head(sorted).priority - c.priority <= 0
    THEN <<Head(sorted)>> \o InsertByPriority(Tail(sorted), c)
  ELSE <<c>> \o sorted

\* candidates.sort((a, b) => a.priority - b.priority): a stable sort
RECURSIVE SortByPriority(_)
SortByPriority(cands) ==
  IF cands = <<>> THEN <<>>
  ELSE InsertByPriority(SortByPriority(SubSeq(cands, 1, Len(cands) - 1)),
                        cands[Len(cands)])

\* the path of the chosen name token, NoPath for null
findBestMethodNameNode(tree, methodName) ==
  Bind(VisitCandidates(tree, <<>>, methodName), LAMBDA candidates :
     IF Len(candidates) = 0 THEN NoPath
     ELSE SortByPriority(candidates)[1].node)


(***************************************************************************)
(* File system                                                             *)
(*   manifest[p] = [kind, imports, mtime]                                  *)
(*     kind: "absent", "unreadable" (readFileSync throws), "malformed"     *)
(*       (JSON.parse throws), "null" (the JSON text null), "noimports" (an *)
(*       object without the imports field), "imports" (an object with it)  *)
(*   files[p] = [kind, tree], kind: "absent", "unreadable", "text"         *)
(***************************************************************************)
ManifestName == <<"package", ".json">>

\* fs.existsSync
Exists(p, mf, fl) ==
  \/ p \in DOMAIN mf /\ mf[p].kind # "absent"
  \/ p \in DOMAIN fl /\ fl[p].kind # "absent"

(***************************************************************************)
(* Alias table                                                             *)
(***************************************************************************)
\* the try block: [threw, imports] of reading, parsing and taking
\* packageJson.imports || {}
ReadImports(m) ==
  IF m.kind \in {"unreadable", "malformed", "null"}
    THEN [threw |-> TRUE, imports |-> EmptyObj]
  ELSE IF m.kind = "imports" THEN [threw |-> FALSE, imports |-> m.imports]
  ELSE [threw |-> FALSE, imports |-> EmptyObj]

\* A faulty key: one entry for all projects.  The frame property rejects it.
CacheKeyShared(projectRoot) == ManifestName

\* the key under which getPackageImports caches the manifest of a project
CacheKey(projectRoot) == Join(projectRoot, ManifestName)

\* A faulty staleness test: an entry once loaded is never stale.  The reload property rejects it.
IsStaleFirstOnly(ts, cacheKey, mtime) == ~MapHas(ts, cacheKey)

\* this.cacheTimestamps.get(cacheKey) !== stat.mtime.getTime()
IsStale(ts, cacheKey, mtime) == ~MapHas(ts, cacheKey) \/ ts[cacheKey] # mtime

\* A faulty catch block: a failed read leaves the cached mapping in place.
\* The unreadable-manifest property rejects it.
ReloadedKeepingEntry(cache, ts, cacheKey, mtime, read) ==
  IF read.threw THEN [cache |-> cache, ts |-> ts]
  ELSE [cache |-> MapSet(cache, cacheKey, read.imports),
        ts |-> MapSet(ts, cacheKey, mtime)]

\* the caches after the if statement: [cache, ts]
Reloaded(cache, ts, cacheKey, mtime, read) ==
  IF read.threw THEN [cache |-> MapSet(cache, cacheKey, EmptyObj), ts |-> ts]
  ELSE [cache |-> MapSet(cache, cacheKey, read.imports),
        ts |-> MapSet(ts, cacheKey, mtime)]

\* [threw, cache, ts, value, reads, key, mtime]: the caches after the call, the
\* value returned, and the number of times the manifest was read
getPackageImports(projectRoot, mf, cache, ts) ==
  Bind(Join(projectRoot, ManifestName), LAMBDA packageJsonPath :
  Bind(CacheKey(projectRoot), LAMBDA cacheKey :
    IF ~(packageJsonPath \in DOMAIN mf /\ mf[packageJsonPath].kind # "absent")
      THEN      \* fs.statSync throws
        [threw |-> TRUE, cache |-> cache, ts |-> ts, value |-> EmptyObj,
         reads |-> 0, key |-> cacheKey, mtime |-> 0]
    ELSE
      Bind(mf[packageJsonPath], LAMBDA stat :
      Bind(IsStale(ts, cacheKey, stat.mtime), LAMBDA stale :
      Bind(IF stale THEN Reloaded(cache, ts, cacheKey, stat.mtime, ReadImports(stat))
           ELSE [cache |-> cache, ts |-> ts], LAMBDA after :
        [threw |-> FALSE, cache |-> after.cache, ts |-> after.ts,
         value |-> MapGet(after.cache, cacheKey, EmptyObj),
         reads |-> IF stale THEN 1 ELSE 0,
         key |-> cacheKey, mtime |-> stat.mtime])))))

\* a request that made no alias-table load
NoLoad(cache, ts) ==
  [threw |-> FALSE, cache |-> cache, ts |-> ts, value |-> EmptyObj, reads |-> 0,
   key |-> <<>>, mtime |-> 0]

(***************************************************************************)
(* Target resolver                                                         *)
(***************************************************************************)
TopOfFile == [top |-> TRUE, at |-> <<>>]
TokenAt(path) == [top |-> FALSE, at |-> path]

\* [threw, path, pos, g, by]: path <<>> is null; g is the alias-table load
Resolved(p, pos, g, by) == [threw |-> FALSE, path |-> p, pos |-> pos, g |-> g, by |-> by]
NotResolved(g, by) == Resolved(<<>>, TopOfFile, g, by)
Thrown(g, by) == [threw |-> TRUE, path |-> <<>>, pos |-> TopOfFile, g |-> g, by |-> by]

\* for (const p of paths) if (fs.existsSync(p)) return p;  <<>> when none exists
RECURSIVE FirstExisting(_, _, _)
FirstExisting(paths, mf, fl) ==
  IF paths = <<>> THEN <<>>
  ELSE IF Exists(Head(paths), mf, fl) THEN Head(paths)
  ELSE FirstExisting(Tail(paths), mf, fl)

\* the four candidates of a resolved path with an extension
ExtensionCandidates(resolvedPath) ==
  <<ReplaceFirst(resolvedPath, <<".js">>, <<".ts">>),
    resolvedPath,
    ReplaceSuffix(resolvedPath, <<".ts">>, <<"/", "index", ".ts">>),
    ReplaceSuffix(resolvedPath, <<".js">>, <<"/", "index", ".js">>)>>

ControllersKey == <<"#controllers", "/", "*">>
RoutesKey == <<"#routes", "/", "*">>

\* return the first candidate that exists, at the top of the file, or null
FirstAtTop(cands, mf, fl, g, by) ==
  Bind(FirstExisting(cands, mf, fl), LAMBDA p :
    IF p = <<>> THEN NotResolved(g, by) ELSE Resolved(p, TopOfFile, g, by))

\* the wildcard branch, for the string of the "#controllers/*" mapping
ResolveWildcard(mappingPattern, controllerModule, projectRoot, mf, fl, g, by) ==
  IF Includes(mappingPattern, <<"*">>)
    THEN FirstAtTop(ExtensionCandidates(
                      Resolve(projectRoot,
                              ReplaceFirst(mappingPattern, <<"*">>, controllerModule))),
                    mf, fl, g, by)
  ELSE Bind(Resolve(projectRoot, Dirname(mappingPattern)), LAMBDA basePath :
         FirstAtTop(<<Join(basePath, controllerModule \o <<".ts">>),
                      Join(basePath, controllerModule \o <<".js">>),
                      Join(basePath, controllerModule \o <<"/", "index", ".ts">>),
                      Join(basePath, controllerModule \o <<"/", "index", ".js">>)>>,
                    mf, fl, g, by))

resolveControllerFromImportPath(importPath, projectRoot, mf, fl, cache, ts) ==
  Bind(getPackageImports(projectRoot, mf, cache, ts), LAMBDA g :
  Bind("importPath", LAMBDA by :
    IF g.threw THEN Thrown(g, by)
    ELSE Bind(Prop(g.value, importPath), LAMBDA mapping :
      IF Truthy(mapping)
        THEN IF mapping.t # "str" THEN Thrown(g, by)   \* path.resolve: TypeError
             ELSE FirstAtTop(ExtensionCandidates(Resolve(projectRoot, mapping.s)),
                             mf, fl, g, by)
      ELSE IF StartsWith(importPath, ControllersPrefix)
        THEN Bind(Prop(g.value, ControllersKey), LAMBDA controllersMapping :
               IF ~Truthy(controllersMapping) THEN NotResolved(g, by)
               ELSE ResolveWildcard(ToStr(controllersMapping),
                                    Substring(importPath, Len(ControllersPrefix)),
                                    projectRoot, mf, fl, g, by))
      ELSE NotResolved(g, by))))

\* A faulty conversion: an underscore before every capital that is not the
\* first letter.  The snake-case property rejects it.
RECURSIVE SnakeCaseBeforeCapitals(_)
SnakeCaseBeforeCapitals(name) ==
  IF name = <<>> THEN <<>>
  ELSE IF Len(name) > 1 /\ name[2] \in Upper
    THEN <<ToLowerChar(name[1]), "_">> \o SnakeCaseBeforeCapitals(Tail(name))
  ELSE <<ToLowerChar(name[1])>> \o SnakeCaseBeforeCapitals(Tail(name))

\* .replace(/([a-z])([A-Z])/g, "$1_$2").toLowerCase()
RECURSIVE SnakeCase(_)
SnakeCase(name) ==
  IF name = <<>> THEN <<>>
  ELSE IF Len(name) > 1 /\ name[1] \in Lower /\ name[2] \in Upper
    THEN <<name[1], "_">> \o SnakeCase(Tail(name))
  ELSE <<ToLowerChar(name[1])>> \o SnakeCase(Tail(name))

\* A faulty order: the files named as the controller before the files of the
\* path-safe name.  The candidate-order property rejects it.
ControllerCandidatesNameFirst(basePath, snakeCaseName, controllerName) ==
  <<Join(basePath, controllerName \o <<".ts">>),
    Join(basePath, controllerName \o <<".js">>),
    Join(basePath, controllerName \o <<"/", "index", ".ts">>),
    Join(basePath, controllerName \o <<"/", "index", ".js">>),
    Join(basePath, snakeCaseName \o <<".ts">>),
    Join(basePath, snakeCaseName \o <<".js">>)>>

\* the six candidates of a controller name under the base directory
ControllerCandidates(basePath, snakeCaseName, controllerName) ==
  <<Join(basePath, snakeCaseName \o <<".ts">>),
    Join(basePath, snakeCaseName \o <<".js">>),
    Join(basePath, controllerName \o <<"/", "index", ".ts">>),
    Join(basePath, controllerName \o <<"/", "index", ".js">>),
    Join(basePath, controllerName \o <<".ts">>),
    Join(basePath, controllerName \o <<".js">>)>>

resolveControllerPath(controllerName, projectRoot, mf, fl, cache, ts) ==
  Bind(getPackageImports(projectRoot, mf, cache, ts), LAMBDA g :
  Bind("controllerPath", LAMBDA by :
    IF g.threw THEN Thrown(g, by)
    ELSE Bind(Prop(g.value, ControllersKey), LAMBDA controllersMapping :
      IF ~Truthy(controllersMapping) THEN NotResolved(g, by)
      ELSE FirstAtTop(
             ControllerCandidates(
               Resolve(projectRoot, Dirname(ToStr(controllersMapping))),
               SnakeCase(controllerName), controllerName),
             mf, fl, g, by))))

\* the path of the name token in the target, NoPath for null (no candidate,
\* or readFileSync throws and the catch returns null)
findMethodInControllerFile(controllerPath, methodName, fl) ==
  IF ~(controllerPath \in DOMAIN fl /\ fl[controllerPath].kind = "text") THEN NoPath
  ELSE findBestMethodNameNode(fl[controllerPath].tree, methodName)

\* methodLocation || new vscode.Location(uri, new vscode.Position(0, 0)), and
\* the top of the file when no method name is given
MemberOrTop(controllerPath, methodName, fl) ==
  IF methodName = <<>> THEN TopOfFile
  ELSE Bind(findMethodInControllerFile(controllerPath, methodName, fl), LAMBDA best :
         IF best = NoPath THEN TopOfFile ELSE TokenAt(best))

\* resolveControllerDefinition without the fallback to the top of the file:
\* no result when the member is not found
resolveControllerDefinitionMemberOnly(controllerName, methodName, projectRoot, mf, fl, cache, ts) ==
  Bind(resolveControllerPath(controllerName, projectRoot, mf, fl, cache, ts), LAMBDA r :
    IF r.threw \/ r.path = <<>> THEN r
    ELSE IF methodName # <<>> /\ findMethodInControllerFile(r.path, methodName, fl) = NoPath
      THEN NotResolved(r.g, r.by)
    ELSE [r EXCEPT !.pos = MemberOrTop(r.path, methodName, fl)])

resolveControllerDefinition(controllerName, methodName, projectRoot, mf, fl, cache, ts) ==
  Bind(resolveControllerPath(controllerName, projectRoot, mf, fl, cache, ts), LAMBDA r :
    IF r.threw \/ r.path = <<>> THEN r
    ELSE [r EXCEPT !.pos = MemberOrTop(r.path, methodName, fl)])

resolveControllerVariableDefinition(variableName, methodName, projectRoot, sourceFile, mf, fl, cache, ts) ==
  Bind(findControllerImportPath(sourceFile, variableName), LAMBDA importPath :
    IF importPath = <<>> THEN NotResolved(NoLoad(cache, ts), "none")
    ELSE Bind(resolveControllerFromImportPath(importPath, projectRoot, mf, fl, cache, ts),
              LAMBDA location :
           IF location.threw \/ location.path = <<>> THEN location
           ELSE [location EXCEPT !.pos = MemberOrTop(location.path, methodName, fl)]))

resolveRoutesModule(moduleName, projectRoot, fileName, mf, fl, cache, ts) ==
  Bind(getPackageImports(projectRoot, mf, cache, ts), LAMBDA g :
  Bind("routesModule", LAMBDA by :
    IF g.threw THEN Thrown(g, by)
    ELSE Bind(Prop(g.value, RoutesKey), LAMBDA routesMapping :
      IF Truthy(routesMapping) /\ routesMapping.t # "str"
        THEN Thrown(g, by)       \* routesMapping.replace is not a function
      ELSE Bind(IF Truthy(routesMapping)
                  THEN Bind(Resolve(projectRoot,
                                    ReplaceFirst(routesMapping.s, <<"/", "*">>, <<>>)),
                            LAMBDA basePath :
                         FirstExisting(<<Join(basePath, moduleName \o <<".ts">>),
                                         Join(basePath, moduleName \o <<".js">>)>>,
                                       mf, fl))
                ELSE <<>>, LAMBDA aliased :
             IF aliased # <<>> THEN Resolved(aliased, TopOfFile, g, by)
             ELSE FirstAtTop(<<Join(Dirname(fileName), moduleName \o <<".ts">>)>>,
                             mf, fl, g, by)))))

resolveDefinition(context, projectRoot, fileName, sourceFile, mf, fl, cache, ts) ==
  CASE context.type = "controller_variable" ->
         IF context.variableName = <<>> THEN NotResolved(NoLoad(cache, ts), "none")
         ELSE resolveControllerVariableDefinition(context.variableName,
                context.methodName, projectRoot, sourceFile, mf, fl, cache, ts)
    [] context.type = "method_string" ->
         IF context.controllerName = <<>> THEN NotResolved(NoLoad(cache, ts), "none")
         ELSE resolveControllerDefinition(context.controllerName, context.methodName,
                projectRoot, mf, fl, cache, ts)
    [] context.type = "controller_import_path" ->
         IF context.importPath = <<>> THEN NotResolved(NoLoad(cache, ts), "none")
         ELSE resolveControllerFromImportPath(context.importPath, projectRoot, mf, fl,
                cache, ts)
    [] context.type = "routes_module" ->
         IF context.moduleName = <<>> THEN NotResolved(NoLoad(cache, ts), "none")
         ELSE resolveRoutesModule(context.moduleName, projectRoot, fileName, mf, fl,
                cache, ts)
    [] OTHER -> NotResolved(NoLoad(cache, ts), "none")

(***************************************************************************)
(* The resolve request                                                     *)
(***************************************************************************)
isSupportedFile(filePath) ==
  \/ Includes(filePath, <<"/", "routes", "/">>)
  \/ EndsWith(filePath, <<"/", "start", "/", "routes", ".ts">>)

\* the while loop of findProjectRoot; <<>> is null
RECURSIVE ClimbToManifest(_, _, _)
ClimbToManifest(currentDir, mf, fl) ==
  IF currentDir = Dirname(currentDir) THEN <<>>
  ELSE IF Exists(Join(currentDir, ManifestName), mf, fl) THEN currentDir
  ELSE ClimbToManifest(Dirname(currentDir), mf, fl)

findProjectRoot(filePath, mf, fl) == ClimbToManifest(Dirname(filePath), mf, fl)

\* A request without its catch block: what resolveDefinition throws escapes.
\* The no-fault property rejects it.
CompletionNoCatch(r, context) ==
  IF r.threw
    THEN [outcome |-> "fault", path |-> <<>>, pos |-> [top |-> TRUE, at |-> <<>>],
          caught |-> FALSE]
  ELSE IF r.path = <<>>
    THEN [outcome |-> "null", path |-> <<>>, pos |-> [top |-> TRUE, at |-> <<>>],
          caught |-> FALSE]
  ELSE [outcome |-> IF context.type = "controller_variable" THEN "link" ELSE "location",
        path |-> r.path, pos |-> r.pos, caught |-> FALSE]

\* [outcome, path, pos, caught]: what the request hands to its caller once
\* resolveDefinition has returned or thrown r.  outcome: "null", "location"
\* (a Location), "link" (a LocationLink[]), "fault" (an exception escapes)
Completion(r, context) ==
  IF r.threw
    THEN [outcome |-> "null", path |-> <<>>, pos |-> TopOfFile, caught |-> TRUE]
  ELSE IF r.path = <<>>
    THEN [outcome |-> "null", path |-> <<>>, pos |-> TopOfFile, caught |-> FALSE]
  ELSE [outcome |-> IF context.type = "controller_variable" THEN "link" ELSE "location",
        path |-> r.path, pos |-> r.pos, caught |-> FALSE]

\* what a request that returns before resolveDefinition hands back
EarlyReturn(cache, ts, projectRoot) ==
  [done |-> [outcome |-> "null", path |-> <<>>, pos |-> TopOfFile, caught |-> FALSE],
   context |-> NoContext, root |-> projectRoot,
   r |-> NotResolved(NoLoad(cache, ts), "none")]

\* provideDefinition for the node that findNodeAtPosition returns for the
\* offset (NoPath: none).  mfRoot is the manifests on disk when the project
\* root is searched, mfLoad when the alias table is loaded.
\* [done, context, root, r]: done is what is handed back, r the resolution.
provideDefinition(fileName, sourceFile, node, mfRoot, mfLoad, fl, cache, ts) ==
  IF node = NoPath THEN EarlyReturn(cache, ts, <<>>)
  ELSE IF ~isSupportedFile(fileName) THEN EarlyReturn(cache, ts, <<>>)
  ELSE Bind(findProjectRoot(fileName, mfRoot, fl), LAMBDA projectRoot :
    IF projectRoot = <<>> THEN EarlyReturn(cache, ts, <<>>)
    ELSE Bind(analyzeClickContext(sourceFile, node), LAMBDA clickContext :
      IF clickContext.type = "none" THEN EarlyReturn(cache, ts, projectRoot)
      ELSE Bind(resolveDefinition(clickContext, projectRoot, fileName, sourceFile,
                                  mfLoad, fl, cache, ts), LAMBDA r :
             [done |-> Completion(r, clickContext), context |-> clickContext,
              root |-> projectRoot, r |-> r])))

(***************************************************************************)
(* The projects, files and documents of the checked behaviours             *)
(***************************************************************************)
RootA == <<"/", "pa">>
RootB == <<"/", "pb">>
ManifestOf(root) == root \o <<"/", "package", ".json">>

\* the documents a request is made for
RoutesFileA == <<"/", "pa", "/", "start", "/", "routes", ".ts">>
RoutesFileB == <<"/", "pb", "/", "start", "/", "routes", ".ts">>
PlainFileA == <<"/", "pa", "/", "app", "/", "x", ".ts">>         \* not a routes file
StrayRoutesFile == <<"/", "tmp", "/", "start", "/", "routes", ".ts">>  \* no manifest above

ControllerVar == <<"U", "x", "C">>
ControllerModule == <<"u", "x", "_", "c">>
ControllerImport == ControllersPrefix \o ControllerModule
ControllerFileA == <<"/", "pa", "/", "app", "/", "controllers", "/">> \o ControllerModule \o <<".ts">>
MethodM == <<"m">>

\* const UxC = () => import('#controllers/ux_c')
\* router.get('/x', [UxC, 'm'])
\* router.group(x)
RoutesText ==
  SourceFile(<<
    VarStmt(<<VarDecl(ControllerVar,
                      <<Arrow(<<>>, Call(ImportKeyword, <<Str(ControllerImport)>>))>>)>>),
    ExprStmt(Call(PropAccess(Ident(<<"router">>), <<"get">>),
                  <<Str(<<"/", "x">>), Arr(<<Ident(ControllerVar), Str(MethodM)>>)>>)),
    ExprStmt(Call(PropAccess(Ident(<<"router">>), <<"group">>), <<Ident(<<"x">>)>>))>>)

\* export default class UxC { m() {} }
ControllerText ==
  SourceFile(<<
    Node("ClassDeclaration", <<>>, {"export", "default"},
         <<Ident(ControllerVar),
           Node("MethodDeclaration", <<>>, {}, <<Ident(MethodM)>>)>>)>>)

EmptyText == SourceFile(<<>>)

\* the nodes a request clicks: every identifier and string of the text, and
\* the root as the one node that is neither
ClickNodes(tree) ==
  {q \in Paths(tree) : NodeAt(tree, q).kind \in {"Identifier", "StringLiteral"}}
    \cup {<<>>}

\* package.json#imports values
WildcardValue == StrVal(<<".", "/", "app", "/", "controllers", "/", "*", ".js">>)
WildcardImports == [k \in {ControllersKey} |-> WildcardValue]
ObjectImports ==
  [k \in {ControllersKey, ControllerImport, RoutesKey} |->
     IF k = ControllersKey THEN WildcardValue ELSE ObjVal]

AbsentManifest == [kind |-> "absent", imports |-> EmptyObj, mtime |-> 0]
Content(kind, imports) == [kind |-> kind, imports |-> imports]

\* what an edit can leave in a manifest; the manifest of project B is not edited
ContentsOf(path) ==
  IF path = ManifestOf(RootA)
    THEN {Content(k, EmptyObj) : k \in {"absent", "unreadable", "malformed", "noimports"}}
           \cup {Content("imports", WildcardImports), Content("imports", ObjectImports)}
  ELSE {}

AbsentFile == [kind |-> "absent", tree |-> EmptyText]
FileStates == {AbsentFile, [kind |-> "unreadable", tree |-> EmptyText],
               [kind |-> "text", tree |-> ControllerText]}

\* the two clicks made in project B: the import string and the method string
ImportStringNode == <<1, 1, 1, 2, 1, 2>>
MethodStringNode == <<2, 1, 3, 2>>

Requests ==
  {[file |-> RoutesFileA, node |-> q] : q \in ClickNodes(RoutesText) \cup {NoPath}}
    \cup {[file |-> RoutesFileB, node |-> q] : q \in {ImportStringNode, MethodStringNode}}
    \cup {[file |-> f, node |-> <<>>] : f \in {PlainFileA, StrayRoutesFile}}

(***************************************************************************)
(* State machine                                                           *)
(***************************************************************************)
NoRequest ==
  [seq |-> 0, file |-> <<>>, context |-> NoContext, root |-> <<>>,
   outcome |-> "none", path |-> <<>>, pos |-> TopOfFile, caught |-> FALSE,
   by |-> "none", loadThrew |-> FALSE, key |-> <<>>, reads |-> 0, value |-> EmptyObj,
   seen |-> Content("absent", EmptyObj), seenMtime |-> 0]

InitDisk ==
  /\ manifest = [k \in {ManifestOf(RootA), ManifestOf(RootB)} |->
                   [kind |-> "imports", imports |-> WildcardImports, mtime |-> 0]]
  /\ files = [k \in {ControllerFileA} |-> [kind |-> "text", tree |-> ControllerText]]
  /\ clock = 0

\* new Map() twice, and no request served yet
InitCaches ==
  /\ importsCache = EmptyObj
  /\ cacheTimestamps = EmptyObj
  /\ recorded = EmptyObj
  /\ last = NoRequest

InitClassifier == cTree = EmptyText /\ cNode = NoPath /\ cCtx = NoContext

InitLocator == mFile = EmptyText /\ mName = <<>> /\ mBest = NoPath

\* no function has been run
NoCall == [fn |-> "none"]
NoRet == <<>>
InitCall == run = NoCall /\ ret = NoRet

Init == InitDisk /\ InitCaches /\ InitClassifier /\ InitLocator /\ InitCall

\* the manifest as seen by someone who reads it
ContentAt(mf, path) ==
  IF path \in DOMAIN mf THEN Content(mf[path].kind, mf[path].imports)
  ELSE Content("absent", EmptyObj)

\* An edit of a manifest (a deletion included): every edit gets a fresh mtime.
EditManifest ==
  \E path \in DOMAIN manifest : \E c \in ContentsOf(path) :
    /\ clock < MaxTime
    /\ c # ContentAt(manifest, path)
    /\ clock' = clock + 1
    /\ manifest' = [manifest EXCEPT ![path] =
                      IF c.kind = "absent" THEN AbsentManifest
                      ELSE [kind |-> c.kind, imports |-> c.imports, mtime |-> clock + 1]]
    /\ last' = NoRequest
    /\ UNCHANGED <<files, importsCache, cacheTimestamps, recorded,
                   cTree, cNode, cCtx, mFile, mName, mBest, run, ret>>

EditFile ==
  \E path \in DOMAIN files : \E f \in FileStates :
    /\ f # files[path]
    /\ files' = [files EXCEPT ![path] = f]
    /\ last' = NoRequest
    /\ UNCHANGED <<manifest, clock, importsCache, cacheTimestamps, recorded,
                   cTree, cNode, cCtx, mFile, mName, mBest, run, ret>>

\* the state after a request whose run is `out`, and its record
Served(req, out, mfLoad) ==
  LET g == out.r.g
      path == ManifestOf(out.root)
      loaded == out.r.by # "none"
  IN /\ importsCache' = g.cache
     /\ cacheTimestamps' = g.ts
     /\ recorded' = IF g.ts # cacheTimestamps
                      THEN MapSet(recorded, g.key, ReadImports(mfLoad[path]).imports)
                    ELSE recorded
     /\ last' = [seq |-> 1 - last.seq, file |-> req.file,
                 context |-> out.context, root |-> out.root,
                 outcome |-> out.done.outcome, path |-> out.done.path,
                 pos |-> out.done.pos, caught |-> out.done.caught,
                 by |-> out.r.by, loadThrew |-> g.threw, key |-> g.key,
                 reads |-> g.reads, value |-> g.value,
                 seen |-> IF loaded THEN ContentAt(mfLoad, path)
                          ELSE Content("absent", EmptyObj),
                 seenMtime |-> IF loaded /\ ~g.threw THEN mfLoad[path].mtime ELSE 0]

\* A resolve request, served against the files as they are.
Request ==
  \E req \in Requests :
    \E out \in {provideDefinition(req.file, RoutesText, req.node, manifest, manifest,
                                  files, importsCache, cacheTimestamps)} :
      /\ Served(req, out, manifest)
      /\ UNCHANGED <<manifest, files, clock, cTree, cNode, cCtx, mFile, mName, mBest, run, ret>>

\* A resolve request during which the manifest of the project is deleted,
\* after the project root was found and before the alias table is loaded.
RequestAsManifestVanishes ==
  \E req \in Requests :
    \E root \in {findProjectRoot(req.file, manifest, files)} :
      /\ clock < MaxTime
      /\ root # <<>>
      /\ \E gone \in {[manifest EXCEPT ![ManifestOf(root)] = AbsentManifest]} :
           \E out \in {provideDefinition(req.file, RoutesText, req.node, manifest, gone,
                                         files, importsCache, cacheTimestamps)} :
             /\ clock' = clock + 1
             /\ manifest' = gone
             /\ Served(req, out, gone)
             /\ UNCHANGED <<files, cTree, cNode, cCtx, mFile, mName, mBest, run, ret>>

Next == EditManifest \/ EditFile \/ Request \/ RequestAsManifestVanishes

Spec == Init /\ [][Next]_vars

(***************************************************************************)
(* Requests on routes documents that bind a variable to a module           *)
(***************************************************************************)
VarNames == {<<"U", "x", "C">>, <<"U", "x">>, <<"C">>}
ModuleNames == {<<"u", "x", "_", "c">>, <<"u", "x">>, <<"c">>}

\* const V = () => import('#controllers/<module>')
\* router.get('/x', [V, 'm'])
BindingText(V, module) ==
  SourceFile(<<
    VarStmt(<<VarDecl(V, <<Arrow(<<>>, Call(ImportKeyword,
                                           <<Str(ControllersPrefix \o module)>>))>>)>>),
    ExprStmt(Call(PropAccess(Ident(<<"router">>), <<"get">>),
                  <<Str(<<"/", "x">>), Arr(<<Ident(V), Str(MethodM)>>)>>))>>)

BindingTexts == {BindingText(V, module) : V \in VarNames, module \in ModuleNames}

\* the file that "./app/controllers/*.js" names for a module of project A
TargetOf(module) ==
  <<"/", "pa", "/", "app", "/", "controllers", "/">> \o module \o <<".ts">>

\* the module the document binds its variable to
BoundModule(tree) ==
  Substring(tree.kids[1].kids[1].kids[1].kids[2].kids[1].kids[2].text,
            Len(ControllersPrefix))

TupleVarNode == <<2, 1, 3, 1>>       \* V of [V, 'm']
MemberTokenM == <<1, 2, 1>>          \* the name token of m in ControllerText

InitBinding ==
  /\ manifest = [k \in {ManifestOf(RootA)} |->
                   [kind |-> "imports", imports |-> WildcardImports, mtime |-> 0]]
  /\ files \in [{TargetOf(module) : module \in ModuleNames} ->
                  {AbsentFile, [kind |-> "text", tree |-> ControllerText]}]
  /\ clock = 0
  /\ InitCaches
  /\ cTree \in BindingTexts /\ cNode = NoPath /\ cCtx = NoContext
  /\ InitLocator /\ InitCall

\* A resolve request on the document cTree.
ClickBinding ==
  \E node \in ClickNodes(cTree) :
    \E out \in {provideDefinition(RoutesFileA, cTree, node, manifest, manifest,
                                  files, importsCache, cacheTimestamps)} :
      /\ Served([file |-> RoutesFileA, node |-> node], out, manifest)
      /\ cNode' = node
      /\ cCtx' = out.context
      /\ UNCHANGED <<manifest, files, clock, cTree, mFile, mName, mBest, run, ret>>

NextBinding == ClickBinding

SpecBinding == InitBinding /\ [][NextBinding]_vars

(***************************************************************************)
(* Classifier runs on routing calls                                        *)
(***************************************************************************)
MaxArgs == 3        \* arguments of the call

CallNames == {<<"get">>, <<"route">>, <<"group">>, <<"use">>}

\* '/x'   W   [V, 'm']   ['GET']   [V, ['i', 'y']]   ['i', 'm']   [[V, 'm'], 'z']
ArgumentForms ==
  {Str(<<"/", "x">>),
   Ident(<<"W">>),
   Arr(<<Ident(<<"V">>), Str(<<"m">>)>>),
   Arr(<<Str(<<"GET">>)>>),
   Arr(<<Ident(<<"V">>), Arr(<<Str(<<"i">>), Str(<<"y">>)>>)>>),
   Arr(<<Str(<<"i">>), Str(<<"m">>)>>),
   Arr(<<Arr(<<Ident(<<"V">>), Str(<<"m">>)>>), Str(<<"z">>)>>)}

ArgumentLists == UNION {[1..n -> ArgumentForms] : n \in 1..MaxArgs}

\* router.<name>(<args>)   and   f(router.<name>(<args>), W)
CallText(name, args, wrapped) ==
  LET call == Call(PropAccess(Ident(<<"router">>), name), args)
  IN SourceFile(<<ExprStmt(IF wrapped
                             THEN Call(Ident(<<"f">>), <<call, Ident(<<"W">>)>>)
                           ELSE call)>>)

CallTexts ==
  {CallText(name, args, wrapped) :
     name \in CallNames, args \in ArgumentLists, wrapped \in BOOLEAN}

InitClassify ==
  /\ InitDisk /\ InitCaches
  /\ cTree \in CallTexts /\ cNode = NoPath /\ cCtx = NoContext
  /\ InitLocator /\ InitCall

\* analyzeClickContext for one node of the document
Classify ==
  \E node \in ClickNodes(cTree) :
    /\ cNode' = node
    /\ cCtx' = analyzeClickContext(cTree, node)
    /\ UNCHANGED <<manifest, files, clock, importsCache, cacheTimestamps, recorded,
                   last, cTree, mFile, mName, mBest, run, ret>>

NextClassify == Classify

SpecClassify == InitClassify /\ [][NextClassify]_vars

(***************************************************************************)
(* Member-locator runs on target files                                     *)
(***************************************************************************)
MaxDecls == 3       \* top-level declarations of a target file

MemberS == <<"s">>
MemberT == <<"t">>
MemberNames == {MemberS, MemberT}

Method(name, body) == Node("MethodDeclaration", <<>>, {}, <<Ident(name)>> \o body)
Property(name) == Node("PropertyDeclaration", <<>>, {}, <<Ident(name)>>)
Class(mods, name, members) ==
  Node("ClassDeclaration", <<>>, mods, <<Ident(name)>> \o members)
Function(mods, name) == Node("FunctionDeclaration", <<>>, mods, <<Ident(name)>>)

\* export default class A { s() {} }
\* export class B { s() {} }
\* class C { s; t() {} }
\* export default class A { t() { class D { s() {} } } }
\* export default class A { t() {} s() {} }
\* export function s() {}     function s() {}     export function t() {}
TargetDecls ==
  {Class({"export", "default"}, <<"A">>, <<Method(MemberS, <<>>)>>),
   Class({"export"}, <<"B">>, <<Method(MemberS, <<>>)>>),
   Class({}, <<"C">>, <<Property(MemberS), Method(MemberT, <<>>)>>),
   Class({"export", "default"}, <<"A">>,
         <<Method(MemberT,
                  <<Node("Block", <<>>, {},
                         <<Class({}, <<"D">>, <<Method(MemberS, <<>>)>>)>>)>>)>>),
   Class({"export", "default"}, <<"A">>,
         <<Method(MemberT, <<>>), Method(MemberS, <<>>)>>),
   Function({"export"}, MemberS),
   Function({}, MemberS),
   Function({"export"}, MemberT)}

TargetTexts ==
  {SourceFile(decls) : decls \in UNION {[1..n -> TargetDecls] : n \in 0..MaxDecls}}

InitMember ==
  /\ InitDisk /\ InitCaches /\ InitClassifier
  /\ mFile \in TargetTexts /\ mName = <<>> /\ mBest = NoPath
  /\ InitCall

\* findBestMethodNameNode for one member name
Locate ==
  \E name \in MemberNames :
    /\ mName' = name
    /\ mBest' = findBestMethodNameNode(mFile, name)
    /\ UNCHANGED <<manifest, files, clock, importsCache, cacheTimestamps, recorded,
                   last, cTree, cNode, cCtx, mFile, run, ret>>

NextMember == Locate

SpecMember == InitMember /\ [][NextMember]_vars

(***************************************************************************)
(* Resolver runs on projects, alias tables and files on disk               *)
(***************************************************************************)
MaxFiles == 2       \* files that exist in the project and beside it

RootJs == <<"/", "w", ".js", "/", "pa">>     \* /w.js/pa
Roots == {RootA, RootJs}

FooPrefix == <<"#foo", "/">>
FooKey == <<"#foo", "/", "*">>
FooImport == FooPrefix \o ControllerModule
\* '#controllers/../../../o/ux_c'
ClimbingImport ==
  ControllersPrefix \o <<"..", "/", "..", "/", "..", "/", "o", "/">> \o ControllerModule
RoutesModuleX == <<"x">>

\* package.json#imports of the projects
FooImports ==
  [k \in {FooKey} |-> StrVal(<<".", "/", "app", "/", "foo", "/", "*", ".js">>)]
ExactJsImports ==
  [k \in {ControllerImport, ControllersKey} |->
     IF k = ControllerImport
       THEN StrVal(<<".", "/", "app", "/", "controllers", "/">> \o ControllerModule
                     \o <<".js">>)
     ELSE StrVal(<<".", "/", "app", "/", "foo", "/", "*", ".js">>)]
ExactTsImports ==
  [k \in {ControllerImport} |->
     StrVal(<<".", "/", "app", "/", "controllers", "/">> \o ControllerModule \o <<".ts">>)]
OutsideImports ==
  [k \in {ControllersKey} |-> StrVal(<<"..", "/", "o", "/", "*", ".js">>)]
RoutesImports ==
  [k \in {RoutesKey} |-> StrVal(<<".", "/", "start", "/", "routes", "/", "*">>)]

ImportTables ==
  {WildcardImports, FooImports, ExactJsImports, ExactTsImports, OutsideImports,
   RoutesImports, EmptyObj}

\* the files that may exist, relative to the project root
RelativeFiles ==
  {<<"app", "/", "controllers", "/">> \o stem \o ext :
     stem \in {ControllerModule, ControllerModule \o <<"/", "index">>,
               ControllerVar, ControllerVar \o <<"/", "index">>},
     ext \in {<<".ts">>, <<".js">>}}
  \cup {<<"app", "/", "foo", "/">> \o ControllerModule \o <<".ts">>,
        <<"..", "/", "o", "/">> \o ControllerModule \o <<".ts">>,
        <<"start", "/", "routes", "/">> \o RoutesModuleX \o <<".ts">>,
        <<"start", "/", "routes", "/">> \o RoutesModuleX \o <<".js">>,
        <<"start", "/">> \o RoutesModuleX \o <<".ts">>}

FilesAround(root) == {Resolve(root, rel) : rel \in RelativeFiles}

RoutesFileOf(root) == root \o <<"/", "start", "/", "routes", ".ts">>

\* the project whose manifest is on disk
RootOnDisk == CHOOSE root \in Roots : ManifestOf(root) \in DOMAIN manifest

InitResolve ==
  /\ \E root \in Roots :
       /\ \E imports \in ImportTables :
            manifest = [k \in {ManifestOf(root)} |->
                          [kind |-> "imports", imports |-> imports, mtime |-> 0]]
       /\ \E present \in SUBSET FilesAround(root) :
            /\ Cardinality(present) <= MaxFiles
            /\ files = [k \in present |-> [kind |-> "text", tree |-> EmptyText]]
  /\ clock = 0
  /\ InitCaches /\ InitClassifier /\ InitLocator /\ InitCall

\* the state after a resolver has run and returned or thrown r
ResolverRan(fn, arg, r) ==
  /\ run' = [fn |-> fn, root |-> RootOnDisk, arg |-> arg]
  /\ ret' = [threw |-> r.threw, path |-> r.path]
  /\ importsCache' = r.g.cache
  /\ cacheTimestamps' = r.g.ts
  /\ UNCHANGED <<manifest, files, clock, recorded, last, cTree, cNode, cCtx,
                 mFile, mName, mBest>>

ResolveImportPath ==
  \E importPath \in {ControllerImport, FooImport, ClimbingImport} :
    \E r \in {resolveControllerFromImportPath(importPath, RootOnDisk, manifest, files,
                                              importsCache, cacheTimestamps)} :
      ResolverRan("resolveControllerFromImportPath", importPath, r)

ResolveControllerName ==
  \E r \in {resolveControllerPath(ControllerVar, RootOnDisk, manifest, files,
                                  importsCache, cacheTimestamps)} :
    ResolverRan("resolveControllerPath", ControllerVar, r)

ResolveRoutesModuleName ==
  \E r \in {resolveRoutesModule(RoutesModuleX, RootOnDisk, RoutesFileOf(RootOnDisk),
                                manifest, files, importsCache, cacheTimestamps)} :
    ResolverRan("resolveRoutesModule", RoutesModuleX, r)

NextResolve == ResolveImportPath \/ ResolveControllerName \/ ResolveRoutesModuleName

SpecResolve == InitResolve /\ [][NextResolve]_vars

(***************************************************************************)
(* Path-safe names of controller names                                     *)
(***************************************************************************)
MaxName == 4        \* letters of a controller name

\* small letters, capitals, a digit and the underscore
NameLetters == {"u", "x", "U", "C", "1", "_"}
ControllerNames == UNION {[1..n -> NameLetters] : n \in 1..MaxName}

InitSnake ==
  /\ InitDisk /\ InitCaches /\ InitClassifier /\ InitLocator
  /\ run \in {[fn |-> "SnakeCase", arg |-> controllerName] :
               controllerName \in ControllerNames}
  /\ ret = NoRet

\* the snakeCaseName of resolveControllerPath for the controller name
ToSnakeCase ==
  /\ ret' = SnakeCase(run.arg)
  /\ UNCHANGED <<manifest, files, clock, importsCache, cacheTimestamps, recorded,
                 last, cTree, cNode, cCtx, mFile, mName, mBest, run>>

NextSnake == ToSnakeCase

SpecSnake == InitSnake /\ [][NextSnake]_vars

(***************************************************************************)
(* Reference-tracer runs on documents of variable declarations             *)
(***************************************************************************)
MaxStmts == 3       \* statements of the document

TracedNames == {<<"V">>, <<"W">>}
ImportA == ControllersPrefix \o <<"a">>
ImportB == ControllersPrefix \o <<"b">>

\* () => import('#controllers/a')     import('#controllers/b')     1     (none)
Initializers ==
  {<<Arrow(<<>>, Call(ImportKeyword, <<Str(ImportA)>>))>>,
   <<Call(ImportKeyword, <<Str(ImportB)>>)>>,
   <<Node("NumericLiteral", <<"1">>, {}, <<>>)>>,
   <<>>}

\* const <name> = <init>     and     { const <name> = <init> }
DeclarationStmts ==
  {VarStmt(<<VarDecl(name, init)>>) : name \in TracedNames, init \in Initializers}
  \cup {Node("Block", <<>>, {}, <<VarStmt(<<VarDecl(name, init)>>)>>) :
          name \in TracedNames, init \in Initializers}

DeclarationTexts ==
  {SourceFile(stmts) : stmts \in UNION {[1..n -> DeclarationStmts] : n \in 1..MaxStmts}}

InitTrace ==
  /\ InitDisk /\ InitCaches
  /\ cTree \in DeclarationTexts /\ cNode = NoPath /\ cCtx = NoContext
  /\ InitLocator /\ InitCall

\* findControllerImportPath for one variable name on the document
Trace ==
  \E variableName \in TracedNames :
    /\ run' = [fn |-> "findControllerImportPath", arg |-> variableName]
    /\ ret' = findControllerImportPath(cTree, variableName)
    /\ UNCHANGED <<manifest, files, clock, importsCache, cacheTimestamps, recorded,
                   last, cTree, cNode, cCtx, mFile, mName, mBest>>

NextTrace == Trace

SpecTrace == InitTrace /\ [][NextTrace]_vars

(***************************************************************************)
(* Project-root searches from files at every depth                         *)
(***************************************************************************)
MaxDepth == 4       \* directories below the filesystem root

DirNames == <<"w", "pa", "start", "routes", "v">>

\* the directory n levels below the filesystem root: /, /w, /w/pa, ...
RECURSIVE DirAt(_)
DirAt(n) ==
  IF n = 0 THEN Sep
  ELSE IF n = 1 THEN Sep \o <<DirNames[1]>>
  ELSE DirAt(n - 1) \o Sep \o <<DirNames[n]>>

\* a file of the directory n levels below the filesystem root
FileAt(n) == IF n = 0 THEN <<"/", "x", ".ts">> ELSE DirAt(n) \o <<"/", "x", ".ts">>

InitRoot ==
  /\ \E holders \in SUBSET (0..MaxDepth) :
       manifest = [k \in {Join(DirAt(n), ManifestName) : n \in holders} |->
                     [kind |-> "imports", imports |-> WildcardImports, mtime |-> 0]]
  /\ files = EmptyObj
  /\ clock = 0
  /\ InitCaches /\ InitClassifier /\ InitLocator /\ InitCall

\* findProjectRoot for one file
FindRoot ==
  \E n \in 0..MaxDepth :
    /\ run' = [fn |-> "findProjectRoot", arg |-> FileAt(n)]
    /\ ret' = findProjectRoot(FileAt(n), manifest, files)
    /\ UNCHANGED <<manifest, files, clock, importsCache, cacheTimestamps, recorded,
                   last, cTree, cNode, cCtx, mFile, mName, mBest>>

NextRoot == FindRoot

SpecRoot == InitRoot /\ [][NextRoot]_vars

(***************************************************************************)
(* Position-locator runs on trees of extents                               *)
(***************************************************************************)
MaxEnd == 3         \* length of the text
MaxKids == 2        \* children of a node

\* siblings do not overlap and come in the order of the text
InTextOrder(ks) == \A i \in 1..(Len(ks) - 1) : ks[i].end <= ks[i + 1].start

ChildLists(nodes) ==
  {ks \in UNION {[1..n -> nodes] : n \in 0..MaxKids} : InTextOrder(ks)}

\* tokens inside [lo, hi]
Tokens(lo, hi) ==
  {Span(iv[1], iv[2], <<>>) : iv \in {p \in (lo..hi) \X (lo..hi) : p[1] < p[2]}}

\* nodes inside [lo, hi], each with tokens inside itself
NodesWithin(lo, hi) ==
  UNION {{Span(t.start, t.end, ks) : ks \in ChildLists(Tokens(t.start, t.end))} :
           t \in Tokens(lo, hi)}

\* source files: from the first token, or from the start, to the end of the text
ExtentTrees ==
  UNION {{Span(a, MaxEnd, ks) : ks \in ChildLists(NodesWithin(a, MaxEnd))} : a \in {0, 1}}

InitLocate ==
  /\ InitDisk /\ InitCaches
  /\ cTree \in ExtentTrees /\ cNode = NoPath /\ cCtx = NoContext
  /\ InitLocator /\ InitCall

\* findNodeAtPosition for one offset of the text
FindNode ==
  \E position \in 0..MaxEnd :
    /\ run' = [fn |-> "findNodeAtPosition", arg |-> position]
    /\ ret' = findNodeAtPosition(cTree, position)
    /\ UNCHANGED <<manifest, files, clock, importsCache, cacheTimestamps, recorded,
                   last, cTree, cNode, cCtx, mFile, mName, mBest>>

NextLocate == FindNode

SpecLocate == InitLocate /\ [][NextLocate]_vars

(***************************************************************************)
(* Requests on routes documents whose handler names a member, against      *)
(* target files that declare it, declare something else, or cannot be read *)
(***************************************************************************)
MaxMembers == 2     \* declarations of a target file

\* const UxC = () => import('#controllers/ux_c')
\* router.get('/x', handler)
RouteText(handler) ==
  SourceFile(<<
    VarStmt(<<VarDecl(ControllerVar,
                      <<Arrow(<<>>, Call(ImportKeyword, <<Str(ControllerImport)>>))>>)>>),
    ExprStmt(Call(PropAccess(Ident(<<"router">>), <<"get">>),
                  <<Str(<<"/", "x">>), handler>>))>>)

\* [UxC, 'm']   [UxC, 's']   [UxC, 't']   [UxC, '']   UxC
Handlers ==
  {Arr(<<Ident(ControllerVar), Str(name)>>) : name \in {MethodM, MemberS, MemberT, <<>>}}
    \cup {Ident(ControllerVar)}

RouteTexts == {RouteText(handler) : handler \in Handlers}

MemberTexts ==
  {SourceFile(decls) : decls \in UNION {[1..n -> TargetDecls] : n \in 0..MaxMembers}}
    \cup {ControllerText}

TargetStates ==
  {AbsentFile, [kind |-> "unreadable", tree |-> EmptyText]}
    \cup {[kind |-> "text", tree |-> t] : t \in MemberTexts}

HandlerNode == <<2, 1, 3>>           \* the handler argument of router.get

InitFallback ==
  /\ manifest = [k \in {ManifestOf(RootA)} |->
                   [kind |-> "imports", imports |-> WildcardImports, mtime |-> 0]]
  /\ files \in [{ControllerFileA} -> TargetStates]
  /\ clock = 0
  /\ InitCaches
  /\ cTree \in RouteTexts /\ cNode = NoPath /\ cCtx = NoContext
  /\ InitLocator /\ InitCall

NextFallback == ClickBinding

SpecFallback == InitFallback /\ [][NextFallback]_vars

(***************************************************************************)
(* Requests on routes documents with route-grouping calls, against the     *)
(* routes modules on disk                                                  *)
(***************************************************************************)
\* router.group(x)
\* router.group(() => f(x))
\* router.group(() => router.get('/x', [x, 'm']))
\* router.group(y, x)
\* router.use(x)
\* group(x)
GroupTexts ==
  {SourceFile(<<ExprStmt(e)>>) : e \in
     {Call(PropAccess(Ident(<<"router">>), <<"group">>), <<Ident(<<"x">>)>>),
      Call(PropAccess(Ident(<<"router">>), <<"group">>),
           <<Arrow(<<>>, Call(Ident(<<"f">>), <<Ident(<<"x">>)>>))>>),
      Call(PropAccess(Ident(<<"router">>), <<"group">>),
           <<Arrow(<<>>, Call(PropAccess(Ident(<<"router">>), <<"get">>),
                              <<Str(<<"/", "x">>),
                                Arr(<<Ident(<<"x">>), Str(MethodM)>>)>>))>>),
      Call(PropAccess(Ident(<<"router">>), <<"group">>),
           <<Ident(<<"y">>), Ident(<<"x">>)>>),
      Call(PropAccess(Ident(<<"router">>), <<"use">>), <<Ident(<<"x">>)>>),
      Call(Ident(<<"group">>), <<Ident(<<"x">>)>>)}}

\* the routes modules that may exist: x and router, as .ts and .js under
\* start/routes and as .ts beside the routes file
ModuleFiles ==
  {RootA \o <<"/", "start">> \o dir \o <<"/">> \o name \o ext :
     dir \in {<<>>, <<"/", "routes">>}, name \in {<<"x">>, <<"router">>},
     ext \in {<<".ts">>, <<".js">>}}
    \ {RootA \o <<"/", "start", "/">> \o name \o <<".js">> : name \in {<<"x">>, <<"router">>}}

GroupTables == {RoutesImports, WildcardImports, EmptyObj}

NestedModuleNode == <<1, 1, 2, 1, 2>>     \* x of router.group(() => f(x))

InitGroup ==
  /\ manifest \in {[k \in {ManifestOf(RootA)} |->
                      [kind |-> "imports", imports |-> t, mtime |-> 0]] : t \in GroupTables}
  /\ files \in [ModuleFiles -> {AbsentFile, [kind |-> "text", tree |-> EmptyText]}]
  /\ clock = 0
  /\ InitCaches
  /\ cTree \in GroupTexts /\ cNode = NoPath /\ cCtx = NoContext
  /\ InitLocator /\ InitCall

NextGroup == ClickBinding

SpecGroup == InitGroup /\ [][NextGroup]_vars

(***************************************************************************)
(* Properties                                                              *)
(***************************************************************************)
\* the imports mapping of a manifest content: its imports field, and the
\* empty mapping for a content that has none or cannot be parsed
ImportsOn(c) == IF c.kind = "imports" THEN c.imports ELSE EmptyObj

\* a step that serves a request (every other step clears the record)
ServesRequest == last'.outcome # "none"

\* a step whose request loaded the alias table with the manifest on disk
LoadsAliasTable == ServesRequest /\ last'.by # "none" /\ ~last'.loadThrew

\* C1: for every manifest path with a recorded timestamp, the cached mapping
\* equals the imports mapping of the content that was on disk when that
\* timestamp was recorded (a path with nothing cached satisfies it).
C1_CacheIsOfRecordedContent ==
  \A k \in DOMAIN importsCache :
    MapHas(cacheTimestamps, k) => importsCache[k] = recorded[k]

\* C2: two requests in succession that resolve the same import string of the
\* same document, with no edit between them, hand back the same result, and
\* the manifest is read at most once over the two.
C2_SecondResolveIsCacheHit ==
  [][(/\ last.outcome # "none" /\ last'.outcome # "none"
      /\ last.by = "importPath" /\ last'.by = "importPath"
      /\ last'.file = last.file /\ last'.context = last.context
      /\ manifest' = manifest /\ files' = files)
     => /\ last'.outcome = last.outcome
        /\ last'.path = last.path
        /\ last'.pos = last.pos
        /\ last.reads + last'.reads <= 1]_vars

\* C3: a load made while the manifest's mtime differs from the recorded
\* timestamp (or none is recorded) reads the manifest once, returns the
\* imports mapping of the content on disk and leaves it as the cached entry;
\* a load made while they are equal reads nothing, returns the cached entry
\* and leaves both maps as they are.
C3_LoadFollowsTimestamp ==
  [][LoadsAliasTable =>
       LET k == last'.key
       IN IF ~MapHas(cacheTimestamps, k) \/ cacheTimestamps[k] # manifest[k].mtime
            THEN /\ last'.reads = 1
                 /\ last'.value = ImportsOn(manifest[k])
                 /\ MapHas(importsCache', k)
                 /\ importsCache'[k] = ImportsOn(manifest[k])
          ELSE /\ last'.reads = 0
               /\ last'.value = importsCache[k]
               /\ importsCache' = importsCache
               /\ cacheTimestamps' = cacheTimestamps]_vars

\* C3 happens: a load has replaced an entry after the manifest was edited for
\* the last time the clock allows.
C3_Reloaded ==
  /\ last.by # "none" /\ last.reads = 1 /\ last.seenMtime = clock /\ clock >= 1
  /\ MapHas(cacheTimestamps, last.key) /\ cacheTimestamps[last.key] = clock
  /\ importsCache[last.key] = ObjectImports

\* the entry of a Map at a key, with its presence
EntryAt(m, k) == IF k \in DOMAIN m THEN <<m[k]>> ELSE <<>>

\* C4: a request leaves the cached mapping and the timestamp of every key but
\* the manifest path of its own project as they were; a request that returns
\* before any load leaves both maps as they were.
C4_OtherProjectsUntouched ==
  [][ServesRequest =>
       /\ \A k \in DOMAIN importsCache \cup DOMAIN importsCache'
                     \cup DOMAIN cacheTimestamps \cup DOMAIN cacheTimestamps' :
            k # ManifestOf(last'.root)
              => /\ EntryAt(importsCache', k) = EntryAt(importsCache, k)
                 /\ EntryAt(cacheTimestamps', k) = EntryAt(cacheTimestamps, k)
       /\ last'.by = "none"
            => importsCache' = importsCache /\ cacheTimestamps' = cacheTimestamps]_vars

\* C4 happens: project A has just reloaded its edited manifest while project
\* B's entry, loaded earlier, is still the one of B's manifest.
C4_BothProjectsCached ==
  /\ last.root = RootA /\ last.reads = 1 /\ last.seenMtime >= 1
  /\ MapHas(importsCache, ManifestOf(RootA))
  /\ MapHas(cacheTimestamps, ManifestOf(RootB))
  /\ importsCache[ManifestOf(RootB)] = WildcardImports
  /\ importsCache[ManifestOf(RootA)] # importsCache[ManifestOf(RootB)]

\* C5: a request ends with no result or with a resolved target, never with a
\* fault handed to its caller.
C5_NoFaultEscapes ==
  \/ last.outcome \in {"none", "null"} /\ last.path = <<>>
  \/ last.outcome \in {"location", "link"} /\ last.path # <<>>

\* C5 happens: the manifest disappeared between the project-root search and
\* the alias load, the load threw, and the request ended with no result.
C5_FaultCaught ==
  /\ last.caught /\ last.loadThrew /\ last.outcome = "null"
  /\ last.seen.kind = "absent" /\ last.root # <<>>

C7_TupleFollowsBinding ==
  (/\ last.outcome # "none"
   /\ cNode \in {TupleVarNode, MethodStringNode}
   /\ files[TargetOf(BoundModule(cTree))].kind = "text")
    => /\ last.outcome \in {"location", "link"}
       /\ last.path = TargetOf(BoundModule(cTree))
       /\ cNode = MethodStringNode => last.pos = TokenAt(MemberTokenM)

\* some enclosing node of the node is a call of one of the routing verbs
InsideVerbCall(tree, node) ==
  \E n \in 0..Len(node) :
    LET c == NodeAt(tree, SubSeq(node, 1, n))
    IN /\ c.kind = "CallExpression"
       /\ c.kids[1].kind = "PropertyAccessExpression"
       /\ c.kids[1].kids[2].text \in RouterVerbs

\* the node is an element of a tuple [Identifier, StringLiteral]
InTuple(tree, node) ==
  /\ node # <<>>
  /\ LET t == NodeAt(tree, Parent(node))
     IN /\ t.kind = "ArrayLiteralExpression"
        /\ Len(t.kids) = 2
        /\ t.kids[1].kind = "Identifier"
        /\ t.kids[2].kind = "StringLiteral"

\* C8: for a tuple [Identifier, StringLiteral] inside a call of a routing
\* verb, at any argument position, a click on the identifier gives a
\* controller_variable context with the identifier's text and a click on the
\* string gives a method_string context with the texts of both.
C8_TupleClicksEcho ==
  (cNode # NoPath /\ InTuple(cTree, cNode) /\ InsideVerbCall(cTree, cNode))
    => LET t == NodeAt(cTree, Parent(cNode))
       IN IF cNode[Len(cNode)] = 1
            THEN cCtx.type = "controller_variable" /\ cCtx.variableName = t.kids[1].text
          ELSE /\ cCtx.type = "method_string"
               /\ cCtx.controllerName = t.kids[1].text
               /\ cCtx.methodName = t.kids[2].text

\* C9: a click on a string gives a method_string context only if the string
\* is the second element of a two-element array whose first element is an
\* identifier; a string that is the first element of an array never does.
C9_MethodStringOnlySecond ==
  (cNode # NoPath /\ cNode # <<>> /\ NodeAt(cTree, cNode).kind = "StringLiteral")
    => LET a == NodeAt(cTree, Parent(cNode))
       IN /\ cCtx.type = "method_string"
               => /\ a.kind = "ArrayLiteralExpression"
                  /\ Len(a.kids) = 2
                  /\ cNode[Len(cNode)] = 2
                  /\ a.kids[1].kind = "Identifier"
          /\ (a.kind = "ArrayLiteralExpression" /\ cNode[Len(cNode)] = 1)
               => cCtx.type # "method_string"

\* C9 happens: the string clicked is the first element of a tuple that is
\* itself the second element of a two-element array headed by an identifier.
C9_FirstOfNestedTuple ==
  /\ cNode # NoPath /\ Len(cNode) >= 2
  /\ NodeAt(cTree, cNode).kind = "StringLiteral"
  /\ cNode[Len(cNode)] = 1
  /\ NodeAt(cTree, Parent(cNode)).kind = "ArrayLiteralExpression"
  /\ Len(NodeAt(cTree, Parent(cNode)).kids) = 2
  /\ Parent(cNode)[Len(cNode) - 1] = 2
  /\ NodeAt(cTree, Parent(Parent(cNode))).kind = "ArrayLiteralExpression"
  /\ Len(NodeAt(cTree, Parent(Parent(cNode))).kids) = 2
  /\ NodeAt(cTree, Parent(Parent(cNode))).kids[1].kind = "Identifier"
  /\ cCtx.type = "none"

\* p comes before q in document order
RECURSIVE Before(_, _)
Before(p, q) ==
  IF p = <<>> THEN q # <<>>
  ELSE IF q = <<>> THEN FALSE
  ELSE IF Head(p) # Head(q) THEN Head(p) < Head(q)
  ELSE Before(Tail(p), Tail(q))

\* the class declaration nearest around the declaration at d, NoPath without
NearestClass(tree, d) ==
  LET at == {n \in 0..(Len(d) - 1) :
               NodeAt(tree, SubSeq(d, 1, n)).kind = "ClassDeclaration"}
  IN IF at = {} THEN NoPath
     ELSE SubSeq(d, 1, CHOOSE n \in at : \A m \in at : m <= n)

\* the priority number of the declaration at d: 1 a method of a class
\* exported as default, 2 a method of another class or a property, 3 an
\* exported function, 0 no candidate
PriorityNumber(tree, d) ==
  LET n == NodeAt(tree, d)
      c == NearestClass(tree, d)
  IN CASE n.kind = "MethodDeclaration" ->
            IF c # NoPath /\ {"export", "default"} \subseteq NodeAt(tree, c).mods
              THEN 1 ELSE 2
       [] n.kind = "PropertyDeclaration" -> 2
       [] n.kind = "FunctionDeclaration" /\ "export" \in n.mods -> 3
       [] OTHER -> 0

\* the declarations of the name in the file that are candidates
CandidateDecls(tree, name) ==
  {d \in Paths(tree) :
     /\ PriorityNumber(tree, d) # 0
     /\ NodeAt(tree, d).kids[1] = Ident(name)}

\* C10: the member locator returns the name token of the candidate with the
\* lowest priority number, the first in document order among those of that
\* number, and nothing when the file has no candidate.
C10_LowestPriorityFirstInDocument ==
  mName # <<>> =>
    LET cands == CandidateDecls(mFile, mName)
    IN IF cands = {} THEN mBest = NoPath
       ELSE \E d \in cands :
              /\ mBest = Append(d, 1)
              /\ \A e \in cands \ {d} :
                   \/ PriorityNumber(mFile, d) < PriorityNumber(mFile, e)
                   \/ /\ PriorityNumber(mFile, d) = PriorityNumber(mFile, e)
                      /\ Before(d, e)

\* C10 happens: the token chosen is neither the first nor the last candidate
\* of the file: a candidate of a higher number comes before it and a
\* candidate of its own number comes after it.
C10_ChosenAmongThree ==
  /\ mName # <<>> /\ mBest # NoPath
  /\ \E e \in CandidateDecls(mFile, mName) :
       /\ Before(e, Parent(mBest))
       /\ PriorityNumber(mFile, e) > PriorityNumber(mFile, Parent(mBest))
  /\ \E e \in CandidateDecls(mFile, mName) :
       /\ Before(Parent(mBest), e)
       /\ PriorityNumber(mFile, e) = PriorityNumber(mFile, Parent(mBest))

\* what a resolver run had on disk
OnDisk(p) == Exists(p, manifest, files)
TableOnDisk == manifest[ManifestOf(run.root)].imports
RanImportPath == run.fn = "resolveControllerFromImportPath"
RanControllerName == run.fn = "resolveControllerPath"
RanRoutesModule == run.fn = "resolveRoutesModule"
RanResolver == RanImportPath \/ RanControllerName \/ RanRoutesModule

\* p with its final ".js" replaced by ".ts"
AsTypeScript(p) == ReplaceSuffix(p, <<".js">>, <<".ts">>)

\* the first candidate of the input under the wildcard alias `key`: <rest>
\* substituted for "*", resolved against the project root, ".js" made ".ts"
WildcardCandidate(key, input, root, table) ==
  LET ns == SubSeq(key, 1, Len(key) - 1)
  IN AsTypeScript(Resolve(root, ReplaceFirst(table[key].s, <<"*">>,
                                             Substring(input, Len(ns)))))

\* key is a wildcard alias "<ns>/*" whose value has one "*" and ends in ".js",
\* and the input is "<ns>/<rest>" without an exact key of its own
UnderWildcard(key, input, table) ==
  /\ EndsWith(key, <<"/", "*">>)
  /\ table[key].t = "str"
  /\ Cardinality({i \in 1..Len(table[key].s) : table[key].s[i] = "*"}) = 1
  /\ EndsWith(table[key].s, <<".js">>)
  /\ StartsWith(input, SubSeq(key, 1, Len(key) - 1))
  /\ Len(input) > Len(key) - 1
  /\ input \notin DOMAIN table

\* C11: for a wildcard alias "<ns>/*" whose value holds one "*" and ends in
\* ".js", resolving "<ns>/<rest>" returns, when it exists, the path got by
\* substituting <rest> for "*", resolving against the project root and
\* replacing the ".js" extension by ".ts".
C11_WildcardSubstitution ==
  RanImportPath =>
    \A key \in DOMAIN TableOnDisk :
      (/\ UnderWildcard(key, run.arg, TableOnDisk)
       /\ OnDisk(WildcardCandidate(key, run.arg, run.root, TableOnDisk)))
        => ret.path = WildcardCandidate(key, run.arg, run.root, TableOnDisk)

\* the positions of a name where a small letter is followed by a capital
Boundaries(name) ==
  {i \in 1..(Len(name) - 1) : name[i] \in Lower /\ name[i + 1] \in Upper}

\* the number of boundaries before position i
BoundariesBefore(name, i) == Cardinality({b \in Boundaries(name) : b < i})

\* the name with "_" put in at its boundaries, lowercased: position by position
SnakeOf(name) ==
  [j \in 1..(Len(name) + Cardinality(Boundaries(name))) |->
     IF \E i \in 1..Len(name) : j = i + BoundariesBefore(name, i)
       THEN ToLowerChar(name[CHOOSE i \in 1..Len(name) :
                                    j = i + BoundariesBefore(name, i)])
     ELSE "_"]

\* C12: the path-safe name of a controller name is the name with one
\* underscore inserted at every boundary where a small letter is followed by a
\* capital, lowercased as a whole, no other character added or removed.
C12_SnakeCaseUnderscoresBoundaries ==
  (run.fn = "SnakeCase" /\ ret # NoRet) =>
    /\ Len(ret) = Len(run.arg) + Cardinality(Boundaries(run.arg))
    /\ \A i \in 1..Len(run.arg) :
         ret[i + BoundariesBefore(run.arg, i)] = ToLowerChar(run.arg[i])
    /\ \A b \in Boundaries(run.arg) :
         ret[b + BoundariesBefore(run.arg, b) + 1] = "_"

\* uCxU gives u_cx_u: two boundaries, and a capital that follows no small letter
C12_TwoBoundaries ==
  /\ run.fn = "SnakeCase"
  /\ run.arg = <<"u", "C", "x", "U">>
  /\ ret = <<"u", "_", "c", "x", "_", "u">>

\* C13: every target path that a resolution returns lies inside the project
\* root directory, for every imports mapping and every import path, controller
\* name or module name.
C13_TargetInsideProjectRoot ==
  (RanResolver /\ ~ret.threw /\ ret.path # <<>>)
    => StartsWith(ret.path, run.root \o Sep)

\* p without its final ".js" or ".ts"
WithoutExtension(p) ==
  IF EndsWith(p, <<".js">>) \/ EndsWith(p, <<".ts">>) THEN SubSeq(p, 1, Len(p) - 1)
  ELSE p

\* the candidates of an aliased path P, in the order of preference
FourCandidates(P) ==
  <<AsTypeScript(P), P,
    WithoutExtension(P) \o <<"/", "index", ".ts">>,
    WithoutExtension(P) \o <<"/", "index", ".js">>>>

\* the candidates of a controller name under a base directory, in the order
\* of preference
SixCandidates(base, snake, name) ==
  <<base \o Sep \o snake \o <<".ts">>, base \o Sep \o snake \o <<".js">>,
    base \o Sep \o name \o <<"/", "index", ".ts">>,
    base \o Sep \o name \o <<"/", "index", ".js">>,
    base \o Sep \o name \o <<".ts">>, base \o Sep \o name \o <<".js">>>>

\* the first path of the list that is on disk, <<>> when none is
FirstOnDisk(paths) ==
  LET there == {i \in 1..Len(paths) : OnDisk(paths[i])}
  IN IF there = {} THEN <<>>
     ELSE paths[CHOOSE i \in there : \A j \in there : i <= j]

\* the path that the alias table gives an import path: by its exact key, else
\* by the "#controllers/*" key; <<>> when it gives none
AliasedPath(input, root, table) ==
  IF input \in DOMAIN table THEN Resolve(root, table[input].s)
  ELSE IF ControllersKey \in DOMAIN table /\ UnderWildcard(ControllersKey, input, table)
    THEN Resolve(root, ReplaceFirst(table[ControllersKey].s, <<"*">>,
                                    Substring(input, Len(ControllersPrefix))))
  ELSE <<>>

\* the directory that the "#routes/*" alias names
RoutesBase ==
  Resolve(run.root, ReplaceSuffix(TableOnDisk[RoutesKey].s, <<"/", "*">>, <<>>))

\* the candidates of the run
CandidatesOfRun ==
  IF RanImportPath
    THEN IF AliasedPath(run.arg, run.root, TableOnDisk) = <<>> THEN <<>>
         ELSE FourCandidates(AliasedPath(run.arg, run.root, TableOnDisk))
  ELSE IF RanControllerName
    THEN IF ControllersKey \notin DOMAIN TableOnDisk THEN <<>>
         ELSE SixCandidates(Resolve(run.root, Dirname(TableOnDisk[ControllersKey].s)),
                            SnakeOf(run.arg), run.arg)
  ELSE IF RoutesKey \notin DOMAIN TableOnDisk
    THEN <<Dirname(RoutesFileOf(run.root)) \o Sep \o run.arg \o <<".ts">>>>
  ELSE <<RoutesBase \o Sep \o run.arg \o <<".ts">>,
         RoutesBase \o Sep \o run.arg \o <<".js">>,
         Dirname(RoutesFileOf(run.root)) \o Sep \o run.arg \o <<".ts">>>>

CandidateOnDisk(ext) ==
  \E i \in 1..Len(CandidatesOfRun) :
    EndsWith(CandidatesOfRun[i], ext) /\ OnDisk(CandidatesOfRun[i])

\* C14: TypeScript sources are preferred over compiled JavaScript: in every
\* resolution (import path, controller name, routes module), whenever a ".ts"
\* candidate and a ".js" candidate both exist on disk, the target returned is a
\* ".ts" file.
C14_TypeScriptPreferred ==
  (RanResolver /\ ~ret.threw /\ CandidateOnDisk(<<".ts">>) /\ CandidateOnDisk(<<".js">>))
    => EndsWith(ret.path, <<".ts">>)

\* the lengths of the paths, from the root towards the node, of the calls of
\* a routing verb that enclose the node
VerbCallDepths(tree, node) ==
  {n \in 0..Len(node) :
     LET c == NodeAt(tree, SubSeq(node, 1, n))
     IN /\ c.kind = "CallExpression"
        /\ c.kids[1].kind = "PropertyAccessExpression"
        /\ c.kids[1].kids[2].text \in RouterVerbs}

\* the innermost call of a routing verb that encloses the node
InnermostVerbCall(tree, node) ==
  SubSeq(node, 1, CHOOSE n \in VerbCallDepths(tree, node) :
                    \A k \in VerbCallDepths(tree, node) : k <= n)

\* the node is the second argument of the call, or the first element of the
\* tuple [Identifier, StringLiteral] that is the second argument
IsHandlerIdentifier(tree, node, verbCall) ==
  /\ Len(NodeAt(tree, verbCall).kids) >= 3
  /\ \/ node = Append(verbCall, 3)
     \/ node = Append(Append(verbCall, 3), 1) /\ InTuple(tree, node)

\* C15: a click on an identifier gives a controller_variable context only if
\* the identifier is itself the first element of the tuple [Identifier,
\* StringLiteral] that is the second argument of the innermost enclosing call of
\* a routing verb, or is itself the identifier that is that second argument, and
\* the context then names the identifier clicked; the receiver, the verb name
\* and the identifiers of other arguments give no such context.
C15_OnlyHandlerIdentifierIsVariable ==
  (/\ cNode # NoPath
   /\ NodeAt(cTree, cNode).kind = "Identifier"
   /\ cCtx.type = "controller_variable")
    => /\ VerbCallDepths(cTree, cNode) # {}
       /\ IsHandlerIdentifier(cTree, cNode, InnermostVerbCall(cTree, cNode))
       /\ cCtx.variableName = NodeAt(cTree, cNode).text

\* the declaration of a statement of the traced documents
DeclarationOf(stmt) ==
  IF stmt.kind = "Block" THEN stmt.kids[1].kids[1].kids[1] ELSE stmt.kids[1].kids[1]

\* e is import('<string>')
IsDynamicImport(e) ==
  /\ e.kind = "CallExpression"
  /\ e.kids[1].kind = "ImportKeyword"
  /\ Len(e.kids) = 2
  /\ e.kids[2].kind = "StringLiteral"

\* the import string a declaration binds its name to, <<>> when it binds it
\* to anything else
BoundImport(decl) ==
  IF Len(decl.kids) < 2 THEN <<>>
  ELSE IF IsDynamicImport(decl.kids[2]) THEN decl.kids[2].kids[2].text
  ELSE IF /\ decl.kids[2].kind = "ArrowFunction"
          /\ Len(decl.kids[2].kids) = 1
          /\ IsDynamicImport(decl.kids[2].kids[1])
    THEN decl.kids[2].kids[1].kids[2].text
  ELSE <<>>

\* the statements of the document that declare the name
DeclaringStmts(tree, name) ==
  {i \in 1..Len(tree.kids) : DeclarationOf(tree.kids[i]).kids[1].text = name}

\* C16: the tracer's result for a variable name is decided by the first
\* declaration of the name in document order: the import string of that
\* declaration when it is bound to a dynamic import or to a function literal
\* without parameters whose body is one, and none when it is bound to anything
\* else, even if a later declaration of the name is bound to a dynamic import.
C16_FirstDeclarationDecides ==
  run.fn = "findControllerImportPath" =>
    IF DeclaringStmts(cTree, run.arg) = {} THEN ret = <<>>
    ELSE ret = BoundImport(DeclarationOf(
                 cTree.kids[CHOOSE i \in DeclaringStmts(cTree, run.arg) :
                              \A j \in DeclaringStmts(cTree, run.arg) : i <= j]))

\* the import path of the run has an exact key whose value ends in ".js" or ".ts"
HasExactKey ==
  /\ RanImportPath
  /\ run.arg \in DOMAIN TableOnDisk
  /\ TableOnDisk[run.arg].t = "str"
  /\ \/ EndsWith(TableOnDisk[run.arg].s, <<".js">>)
     \/ EndsWith(TableOnDisk[run.arg].s, <<".ts">>)

\* C17: when the import path has an exact key in the alias table whose value
\* resolves to P, the resolver returns the first that exists of P with ".js"
\* replaced by ".ts", P, P without extension + "/index.ts", P without extension
\* + "/index.js"; it returns no result only when none of the four exists, and
\* never falls through to the wildcard alias.
C17_ExactKeyFourCandidates ==
  HasExactKey =>
    /\ ~ret.threw
    /\ ret.path = FirstOnDisk(FourCandidates(Resolve(run.root, TableOnDisk[run.arg].s)))

\* the base directory of the "#controllers/*" alias value
ControllersBase == Resolve(run.root, Dirname(TableOnDisk[ControllersKey].s))

\* C18: resolving a controller name Name, with path-safe form snake, under the
\* base directory of the "#controllers/*" alias value returns the first path
\* that exists of snake.ts, snake.js, Name/index.ts, Name/index.js, Name.ts,
\* Name.js, and no result when none exists or when the alias is not declared.
C18_ControllerNameSixCandidates ==
  RanControllerName =>
    /\ ~ret.threw
    /\ ret.path = IF ControllersKey \notin DOMAIN TableOnDisk THEN <<>>
                  ELSE FirstOnDisk(SixCandidates(ControllersBase, SnakeOf(run.arg),
                                                 run.arg))

\* Name/index.js is returned although Name.ts exists too: it comes first
C18_IndexBeforeNamedFile ==
  /\ RanControllerName
  /\ ControllersKey \in DOMAIN TableOnDisk
  /\ ret.path = ControllersBase \o Sep \o run.arg \o <<"/", "index", ".js">>
  /\ OnDisk(ControllersBase \o Sep \o run.arg \o <<".ts">>)

\* the depths of the directories, from the file's own directory up to the
\* filesystem root (depth 0), that hold a manifest
HoldersAbove(filePath) ==
  {n \in 0..MaxDepth :
     /\ n = 0 \/ StartsWith(filePath, DirAt(n) \o Sep)
     /\ Join(DirAt(n), ManifestName) \in DOMAIN manifest}

\* C19: the project root finder terminates for every file path and returns the
\* nearest directory that holds the manifest on the chain from the file's
\* directory up to the filesystem root, the root directory included; it returns
\* none only when no directory of the chain holds the manifest.
C19_NearestManifestDirectory ==
  run.fn = "findProjectRoot" =>
    IF HoldersAbove(run.arg) = {} THEN ret = <<>>
    ELSE ret = DirAt(CHOOSE n \in HoldersAbove(run.arg) :
                       \A k \in HoldersAbove(run.arg) : k <= n)

\* the half-open span [start, end) of the node contains the offset
Covers(n, offset) == n.start <= offset /\ offset < n.end

\* C20: for every tree and offset the position locator returns a node whose
\* half-open span [start, end) contains the offset and none of whose children
\* has a span that contains it (at most one child of a node contains an offset,
\* so the order of siblings does not matter), and it returns none when the
\* offset lies outside the span of the root.
C20_InnermostNodeOfHalfOpenSpan ==
  run.fn = "findNodeAtPosition" =>
    IF ~Covers(cTree, run.arg) THEN ret = NoPath
    ELSE /\ ret # NoPath
         /\ Covers(NodeAt(cTree, ret), run.arg)
         /\ \A i \in 1..Len(NodeAt(cTree, ret).kids) :
              ~Covers(NodeAt(cTree, ret).kids[i], run.arg)

\* the target file of the document's member string holds no candidate
\* declaration of the name, or its text cannot be read
NoCandidateIn(target, name) ==
  \/ target.kind = "unreadable"
  \/ target.kind = "text" /\ CandidateDecls(target.tree, name) = {}

\* C21: a click on the member string of a handler tuple whose target file
\* exists, where the file declares no candidate of that name or cannot be
\* read, still returns a result: the target file at position (0,0), an empty
\* range.
C21_MissingMemberFallsBackToTop ==
  (/\ last.outcome # "none"
   /\ cCtx.type = "method_string" /\ cCtx.methodName # <<>>
   /\ files[ControllerFileA].kind # "absent"
   /\ NoCandidateIn(files[ControllerFileA], cCtx.methodName))
    => /\ last.outcome = "location"
       /\ last.path = ControllerFileA
       /\ last.pos = TopOfFile

\* C21 happens: the member string 's' was clicked and the target file
\* declares members, none of them a candidate named s.
C21_OtherMembersOnly ==
  /\ last.outcome = "location" /\ cCtx.type = "method_string"
  /\ cCtx.methodName = MemberS
  /\ files[ControllerFileA].kind = "text"
  /\ files[ControllerFileA].tree.kids # <<>>
  /\ CandidateDecls(files[ControllerFileA].tree, MemberS) = {}
  /\ last.pos = TopOfFile

C23_ControllerIdentifierOpensTopOfFile ==
  (last.outcome # "none" /\ cCtx.type = "controller_variable")
    => /\ cCtx.methodName = <<>>
       /\ last.outcome \in {"null", "link"}
       /\ last.outcome = "link" => last.path = ControllerFileA /\ last.pos = TopOfFile

\* C23 happens: UxC of [UxC, 'm'] was clicked, the target file declares the
\* method m, and the request returned the top of the file.
C23_TupleHeadWithDeclaredMember ==
  /\ cNode = TupleVarNode /\ cCtx.type = "controller_variable"
  /\ NodeAt(cTree, HandlerNode).kids[2] = Str(MethodM)
  /\ files[ControllerFileA].kind = "text"
  /\ CandidateDecls(files[ControllerFileA].tree, MethodM) # {}
  /\ last.outcome = "link" /\ last.pos = TopOfFile

\* some call that encloses the node has a property-access callee named group
InsideGroupCall(tree, node) ==
  \E n \in 0..(Len(node) - 1) :
    LET c == NodeAt(tree, SubSeq(node, 1, n))
    IN /\ c.kind = "CallExpression"
       /\ c.kids[1].kind = "PropertyAccessExpression"
       /\ c.kids[1].kids[2].text = <<"group">>

\* the paths probed for a routes module of project A, in order: under
\* start/routes as .ts and .js when "#routes/*" is declared, then beside the
\* routes file as .ts
ModuleCandidates(name) ==
  (IF RoutesKey \in DOMAIN manifest[ManifestOf(RootA)].imports
     THEN <<RootA \o <<"/", "start", "/", "routes", "/">> \o name \o <<".ts">>,
            RootA \o <<"/", "start", "/", "routes", "/">> \o name \o <<".js">>>>
   ELSE <<>>)
    \o <<RootA \o <<"/", "start", "/">> \o name \o <<".ts">>>>

\* C24: a click on an identifier that is not classified controller_variable
\* and lies inside a call of a method named group, at any depth, is classified
\* routes_module with the identifier's text, and the request returns the first
\* existing path among <base>/<name>.ts, <base>/<name>.js (with "#routes/*"
\* declared) and <directory of the routes file>/<name>.ts, at position (0,0),
\* and no result when none of them exists.
C24_GroupIdentifierOpensRoutesModule ==
  (/\ last.outcome # "none" /\ cNode # NoPath
   /\ NodeAt(cTree, cNode).kind = "Identifier"
   /\ cCtx.type # "controller_variable"
   /\ InsideGroupCall(cTree, cNode))
    => /\ cCtx.type = "routes_module"
       /\ cCtx.moduleName = NodeAt(cTree, cNode).text
       /\ last.path = FirstOnDisk(ModuleCandidates(NodeAt(cTree, cNode).text))
       /\ last.outcome = IF last.path = <<>> THEN "null" ELSE "location"
       /\ last.pos = TopOfFile

\* C24 happens: x of router.group(() => f(x)) was clicked with "#routes/*"
\* declared, start/routes/x.ts missing, and both start/routes/x.js and
\* start/x.ts on disk; the request returned start/routes/x.js.
C24_NestedIdentifierSecondCandidate ==
  /\ cNode = NestedModuleNode /\ cCtx.type = "routes_module"
  /\ NodeAt(cTree, cNode) = Ident(<<"x">>)
  /\ ~OnDisk(ModuleCandidates(<<"x">>)[1])
  /\ OnDisk(RootA \o <<"/", "start", "/", "x", ".ts">>)
  /\ last.outcome = "location"
  /\ last.path = RootA \o <<"/", "start", "/", "routes", "/", "x", ".js">>

=============================================================================
